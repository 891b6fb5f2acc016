------------------------------ MODULE SetMerge ------------------------------
(***************************************************************************)
(* The two merges ForgeSync's parts are made of (internal/set/set.go,      *)
(* internal/replication/settle.go and mergeField in orgs.go), as pure      *)
(* operators.                                                              *)
(*                                                                         *)
(* A member is a pair: the name of a thing and what is in it.  The code    *)
(* writes it "<login>:<permission>", "<rule>:<digest>" and so on.  `have'  *)
(* maps the nodes that were read to the members found there; `base' is     *)
(* what the nodes last all agreed on.                                      *)
(***************************************************************************)
EXTENDS FiniteSets, Naturals

NameOf(m) == m[1]

Members(have, base) == base \cup UNION {have[n] : n \in DOMAIN have}

\* Decide: nowhere before and somewhere now is added where it is missing ...
AddTo(have, base, n) == (UNION {have[o] : o \in DOMAIN have}) \ (base \cup have[n])

\* ... and everywhere before and missing somewhere now is taken away.
RemoveFrom(have, base, n) ==
    {m \in have[n] \cap base : \E o \in DOMAIN have : m \notin have[o]}

\* Mutant of Settle: in as soon as one node has it.
SettleAny(have, base) == UNION {have[n] : n \in DOMAIN have}

\* Settle: in once every node has it, out once none has, else as it was.
Settle(have, base) ==
    IF DOMAIN have = {} THEN base
    ELSE {m \in Members(have, base) :
            \/ \A n \in DOMAIN have : m \in have[n]
            \/ m \in base /\ \E n \in DOMAIN have : m \in have[n]}

\* Mutant of SettleRead: the silence of a node is read as an answer.
SettleSilent(unread, have, base) == Settle(have, base)

\* settle: the base waits for the nodes that could not be read.
SettleRead(unread, have, base) == IF unread > 0 THEN base ELSE Settle(have, base)

\* Mutant of ContestedChanges: everybody's value is spread.
NoneContested(have, base) == {}

\* contestedVariables: the names being given two different new values.
ContestedChanges(have, base) ==
    LET added == UNION {AddTo(have, base, n) : n \in DOMAIN have}
    IN  {NameOf(m) : m \in {k \in added :
            \E o \in added : NameOf(o) = NameOf(k) /\ o # k}}

\* contestedPackageFiles: the names that hold two different contents.
ContestedFiles(have) ==
    LET found == UNION {have[n] : n \in DOMAIN have}
    IN  {NameOf(m) : m \in {k \in found :
            \E o \in found : NameOf(o) = NameOf(k) /\ o # k}}

\* mergeField: one new value wins, two are a conflict and nothing is written.
FieldChanges(vals, base) == {vals[n] : n \in DOMAIN vals} \ {base}
FieldConflict(vals, base) == Cardinality(FieldChanges(vals, base)) > 1
FieldValue(vals, base) ==
    LET changed == FieldChanges(vals, base)
    IN  IF Cardinality(changed) = 1 THEN CHOOSE v \in changed : TRUE ELSE base
FieldWrites(vals, base) ==
    IF Cardinality(FieldChanges(vals, base)) = 1
    THEN {n \in DOMAIN vals : vals[n] # FieldValue(vals, base)} ELSE {}
=============================================================================
