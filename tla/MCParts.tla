------------------------------- MODULE MCParts -------------------------------
(* Six parts that act on their own, each explored by itself while the others  *)
(* stay in one of their initial states: the client's page, a database being     *)
(* opened, the copies made of a practice, the server of many practices, those   *)
(* that sign up to it, and the texts that are parsed by hand.                   *)
EXTENDS ClientPage, OpenDatabase, PracticeCopies, TenantServer, HostedSignup,
        FormFormats, TLC

VARIABLE part

\* One document is too large for the link, another is the largest the page lets through.
MCSize == [f \in File |-> IF f = CHOOSE g \in File : TRUE THEN 4 ELSE 2]

Texts(chars, n) == UNION {[1 .. k -> chars] : k \in 0 .. n}

\* One client with a name of up to three characters, or two with shorter ones; the rows
\* hold names and addresses trimmed, and every client has a name.
MCBooks ==
    LET Cells(n) == {t \in Texts({"a", Comma, Quote, LF, CR, "="}, n) : t = Trim(t)}
        names(n) == Cells(n) \ {<<>>}
    IN  {<<[name |-> n, email |-> e]>> : n \in names(3), e \in Cells(1)}
        \cup {<<[name |-> n, email |-> <<>>], [name |-> m, email |-> <<"a">>]>> : n, m \in names(2)}

\* One part with up to three bytes, or two with fewer.  The browser picks a boundary
\* that is nowhere in them.
MCLetters ==
    LET Contents(n) == {t \in Texts({"x", "-", "B", CR, LF}, n) :
                           \A i \in 1 .. Len(t) - 2 : SubSeq(t, i, i + 2) # Dash}
        Parts(n)    == [head : {"note", "file"}, content : Contents(n)]
    IN  {<<>>} \cup {<<p>> : p \in Parts(3)} \cup {<<p, q>> : p \in Parts(2), q \in Parts(1)}

\* The names of one part are interchangeable, and no two parts act at once: the same
\* two names serve them all, that the group of permutations stays small.
MCSymmetry == Permutations(Press) \cup Permutations(Tenant)

\* An operator makes one of the two practices there may be, and types no host with the
\* last number, which no sign-up comes to.
MCOperator ==
    /\ \A t, u \in tenants : t.by = "tool" /\ u.by = "tool" => t = u
    /\ \A s \in Slug : hosts[s] # Nobody => s[2] <= MaxTenants

PartsInit ==
    /\ part \in {"client", "database", "copies", "server", "signup", "forms"}
    /\ FormatInit /\ (part # "forms" => paper.of = <<>> /\ paper.kind = "form")
    /\ ClientPageInit /\ OpenInit /\ CopiesInit /\ ServerInit /\ SignupInit
    /\ part # "database" => keyColumn = Person /\ uploads = [u \in Upload |-> "none"]

PartsNext ==
    /\ IF part = "client" THEN ClientPageNext ELSE UNCHANGED clientPageVars
    /\ IF part = "database" THEN OpenNext ELSE UNCHANGED openVars
    /\ IF part = "copies" THEN CopiesNext ELSE UNCHANGED copiesVars
    /\ IF part = "server" THEN ServerNext ELSE UNCHANGED serverVars
    /\ IF part = "signup" THEN SignupNext /\ MCOperator' ELSE UNCHANGED signupVars
    /\ IF part = "forms" THEN FormatNext ELSE UNCHANGED formatVars
    /\ UNCHANGED part

PartsSpec == PartsInit /\ [][PartsNext]_<<clientPageVars, openVars, copiesVars, serverVars, signupVars,
                                         formatVars, part>>
=============================================================================
