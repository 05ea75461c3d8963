------------------------------ MODULE FormFormats ------------------------------
(***************************************************************************)
(* The two texts the server parses by hand.  The client list goes out as a *)
(* spreadsheet (src/src/views.js, csvCell) and comes back through the       *)
(* import (src/src/http.js, parseCsv and clientRowsFromCsv); a form with a  *)
(* file in it comes as multipart/form-data (parseMultipart).                *)
(* A text is a sequence of characters, of which only those count that mean  *)
(* something to a parser; a part's headers are one character, its name.     *)
(***************************************************************************)
EXTENDS Sequences, SequencesExt, FiniteSetsExt, Integers

CONSTANTS
    Books,     \* client lists: sequences of rows [name, email]
    Letters    \* forms: sequences of parts [head, content]

VARIABLES
    paper,     \* what was written: [kind, of]
    stream,    \* how it went over the wire
    turn,      \* parseMultipart's `at`
    got        \* what has been read of it

formatVars == <<paper, stream, turn, got>>

CR         == "CR"
LF         == "LF"
Tab        == "tab"
Quote      == "quote"
Comma      == ","
Apostrophe == "'"
CRLF    == <<CR, LF>>
Blanks  == {CR, LF, Tab, " "}
Formula == {"=", "+", "-", "@", Tab, CR}    \* what a spreadsheet would run

\* The elements of a sequence that are kept, in their order.
Only(seq, kept) ==
    LET only[i \in 0 .. Len(seq)] ==
            IF i = 0 THEN <<>> ELSE IF seq[i] \in kept THEN Append(only[i - 1], seq[i]) ELSE only[i - 1]
    IN  only[Len(seq)]

Has(cell, chars) == \E i \in DOMAIN cell : cell[i] \in chars

Trim(cell) ==
    LET ink == {i \in DOMAIN cell : cell[i] \notin Blanks}
    IN  IF ink = {} THEN <<>> ELSE SubSeq(cell, Min(ink), Max(ink))

-----------------------------------------------------------------------------
(* The spreadsheet. *)

\* The rows hold names and addresses trimmed, and every client has a name.
ASSUME BooksAssumption ==
    \A rows \in Books :
        /\ rows \in Seq([name : Seq(STRING), email : Seq(STRING)])
        /\ \A i \in DOMAIN rows : /\ rows[i].name = Trim(rows[i].name) /\ rows[i].name # <<>>
                                 /\ rows[i].email = Trim(rows[i].email)

guardedText(cell) == IF cell # <<>> /\ cell[1] \in Formula THEN <<Apostrophe>> \o cell ELSE cell

Doubled(cell) ==
    FlattenSeq([i \in DOMAIN cell |-> IF cell[i] = Quote THEN <<Quote, Quote>> ELSE <<cell[i]>>])

\* Mutant: a line break in a cell is not quoted.
CommasQuoted(cell) ==
    LET guarded == guardedText(cell)
    IN  IF Has(guarded, {Quote, Comma}) THEN <<Quote>> \o Doubled(guarded) \o <<Quote>> ELSE guarded

csvCell(cell) ==
    LET guarded == guardedText(cell)
    IN  IF Has(guarded, {Quote, Comma, CR, LF}) THEN <<Quote>> \o Doubled(guarded) \o <<Quote>>
        ELSE guarded

Headings == [name |-> <<"Client">>, email |-> <<"Email address">>]

clientsCsv(rows) ==
    FlattenSeq([i \in 1 .. Len(rows) + 1 |->
        LET row == (<<Headings>> \o rows)[i]
        IN  csvCell(row.name) \o <<Comma>> \o csvCell(row.email) \o CRLF])

Unread == [rows |-> <<>>, row |-> <<>>, cell |-> <<>>, quoted |-> FALSE, atCellStart |-> TRUE, skip |-> FALSE]

Push(s, ch)  == [s EXCEPT !.cell = Append(@, ch)]
EndCell(s)   == [s EXCEPT !.row = Append(@, s.cell), !.cell = <<>>, !.atCellStart = TRUE]
EndRow(s)    == [EndCell(s) EXCEPT !.rows = Append(@, Append(s.row, s.cell)), !.row = <<>>]

\* Inside quotes only a quote counts: two are one, and one is the end.
Inside(s, ch, next) ==
    IF ch = Quote THEN IF next = Quote THEN [Push(s, Quote) EXCEPT !.skip = TRUE]
                                       ELSE [s EXCEPT !.quoted = FALSE]
    ELSE IF ch = CR THEN s ELSE Push(s, ch)

Outside(s, ch) ==
    CASE ch = Quote /\ s.atCellStart -> [s EXCEPT !.quoted = TRUE, !.atCellStart = FALSE]
      [] ch = Comma -> EndCell(s)
      [] ch = CR    -> s
      [] ch = LF    -> EndRow(s)
      [] OTHER      -> [Push(s, ch) EXCEPT !.atCellStart = FALSE]

\* One turn of the loop: what is made of the i-th character.
ReadChar(csv, s, i) ==
    IF s.skip THEN [s EXCEPT !.skip = FALSE]
    ELSE IF s.quoted THEN Inside(s, csv[i], IF i < Len(csv) THEN csv[i + 1] ELSE Comma)
    ELSE Outside(s, csv[i])

parseCsv(csv) ==
    LET read[i \in 0 .. Len(csv)] == IF i = 0 THEN Unread ELSE ReadChar(csv, read[i - 1], i)
        last == read[Len(csv)]
        all  == IF last.cell # <<>> \/ last.row # <<>> THEN EndRow(last).rows ELSE last.rows
    IN  Only(all, {row \in Range(all) : \E i \in DOMAIN row : Trim(row[i]) # <<>>})

\* The columns by their headings, or by their places when there are none.
clientRowsFromCsv(csv) ==
    LET grid    == parseCsv(csv)
        Find(h) == {i \in DOMAIN grid[1] : Trim(grid[1][i]) = h}
        named   == Find(Headings.name)
        mailed  == Find(Headings.email)
        Cell(row, found, place) ==
            LET i == IF found = {} THEN place ELSE Min(found) IN IF i \in DOMAIN row THEN Trim(row[i]) ELSE <<>>
    IN  IF grid = <<>> THEN <<>>
        ELSE [i \in 1 .. Len(grid) - (IF named \cup mailed = {} THEN 0 ELSE 1) |->
                LET row == grid[IF named \cup mailed = {} THEN i ELSE i + 1]
                IN  [name |-> Cell(row, named, 1), email |-> Cell(row, mailed, 2)]]

ReadSheet ==
    /\ paper.kind = "sheet" /\ turn = 1
    /\ got' = clientRowsFromCsv(Trim(stream))
    /\ turn' = 0
    /\ UNCHANGED <<paper, stream>>

-----------------------------------------------------------------------------
(* The form. *)

Dash == <<"-", "-", "B">>

\* The browser picks a boundary that is in none of what it sends.
ASSUME LettersAssumption ==
    \A parts \in Letters :
        /\ parts \in Seq([head : {"note", "file"}, content : Seq(STRING)])
        /\ \A i \in DOMAIN parts : \A j \in 1 .. Len(parts[i].content) - 2 :
               SubSeq(parts[i].content, j, j + 2) # Dash

\* Where pattern is in the text first, from some place on, or 0.
indexOf(pattern, from) ==
    LET starts == {i \in from .. Len(stream) - Len(pattern) + 1 : SubSeq(stream, i, i + Len(pattern) - 1) = pattern}
    IN  IF starts = {} THEN 0 ELSE Min(starts)

Compose(parts) ==
    FlattenSeq([i \in DOMAIN parts |->
        Dash \o CRLF \o <<parts[i].head>> \o CRLF \o CRLF \o parts[i].content \o CRLF])
    \o Dash \o <<"-", "-">> \o CRLF

\* Mutant: every line break at the end of a part is taken for the boundary's.
EndOfText(from, next) ==
    LET ink == {i \in from .. next - 1 : stream[i] \notin {CR, LF}} IN IF ink = {} THEN from - 1 ELSE Max(ink)

\* A part ends before the one line break that belongs to the boundary.
ContentEnd(from, next) == IF stream[next - 2] = CR /\ stream[next - 1] = LF THEN next - 3 ELSE next - 1

\* One turn of parseMultipart's loop.
ReadPart ==
    /\ paper.kind = "form" /\ turn > 0
    /\ LET start   == turn + Len(Dash)
           closing == SubSeq(stream, start, start + 1) = <<"-", "-">>
           begin   == IF SubSeq(stream, start, start + 1) = CRLF THEN start + 2 ELSE start
           headEnd == indexOf(CRLF \o CRLF, begin)
           next    == indexOf(Dash, headEnd + 4)
       IN  IF closing \/ headEnd = 0 \/ next = 0 THEN turn' = 0 /\ UNCHANGED got
           ELSE /\ turn' = next
                /\ LET head    == stream[begin]
                       content == SubSeq(stream, headEnd + 4, ContentEnd(headEnd + 4, next))
                   IN  got' = IF head = "file" THEN [got EXCEPT !.files = Append(@, content)]
                              ELSE [got EXCEPT !.note = content]
    /\ UNCHANGED <<paper, stream>>

-----------------------------------------------------------------------------
NothingYet == [note |-> <<>>, files |-> <<>>]

FormatInit ==
    /\ \/ \E rows \in Books : paper = [kind |-> "sheet", of |-> rows] /\ stream = clientsCsv(rows) /\ got = <<>>
       \/ \E parts \in Letters : paper = [kind |-> "form", of |-> parts] /\ stream = Compose(parts) /\ got = NothingYet
    /\ turn = 1

FormatNext == ReadSheet \/ ReadPart

FormatSpec == FormatInit /\ [][FormatNext]_formatVars

-----------------------------------------------------------------------------
\* What is left of a cell: a guard before a formula, and no carriage returns.
Carried(cell) == LET guarded == guardedText(cell) IN Only(guarded, Range(guarded) \ {CR})

\* What is written is read: an exported client list comes back row for row and
\* cell for cell, whatever separators, quotes and line breaks are in a name, and
\* a form's files and words come back byte for byte, whatever they end in.
WrittenIsRead ==
    turn = 0 =>
        IF paper.kind = "sheet"
        THEN got = [i \in DOMAIN paper.of |-> [name  |-> Carried(paper.of[i].name),
                                              email |-> Carried(paper.of[i].email)]]
        ELSE LET Of(h) == Only(paper.of, {part \in Range(paper.of) : part.head = h})
             IN  /\ got.files = [i \in DOMAIN Of("file") |-> Of("file")[i].content]
                 /\ Of("note") # <<>> => got.note = Last(Of("note")).content

===============================================================================
