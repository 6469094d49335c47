--------------------------------- MODULE ProbeTree ---------------------------------
(***************************************************************************)
(* The decision tree of tools/fingerprint.py and its use on a receiver.    *)
(* The map is a set of variants [label, sig]: a receiver has one for each  *)
(* tick phase, and its signature is the verdict on every probe.  Probes    *)
(* are counted from one.                                                   *)
(***************************************************************************)
EXTENDS Fingerprint, FiniteSets

LOCAL INSTANCE SequencesExt

CONSTANTS
  Grid,       \* the probes: [family, row]
  Maps,       \* the maps a tree may be built from
  Fields,     \* the probes it may use
  Confirm,    \* confirmations per leaf
  Reports     \* what a receiver may make the engine capture

ASSUME GridAssumption == Fields \subseteq SUBSET DOMAIN Grid /\ Confirm \in Nat

VARIABLES
  map, allowed,   \* what the tree was built from
  tree,
  node,           \* where identify is in it
  used,           \* the probes run, in order
  report,         \* what the last run captured
  heard,          \* the verdict of every probe run
  answer          \* a set of labels, {"unknown"} or {"raised"}; {} until it is known

treeVars == <<map, allowed, tree, node, used, report, heard, answer>>

FAMILIES == <<"P1", "P2", "P3", "P4">>
Family(q) == CHOOSE i \in DOMAIN FAMILIES : FAMILIES[i] = Grid[q].family

Labels(group) == {v.label : v \in group}
Outcomes(group, q) == {v.sig[q] : v \in group}
Branch(group, q, outcome) == {v \in group : v.sig[q] = outcome}

separating(a, b, field) == {q \in field : Outcomes(a, q) \cap Outcomes(b, q) = {}}
separable(a, b, field) == \A x \in a, y \in b : \E q \in field : x.sig[q] # y.sig[q]

_neighbours(q) == {n \in {q - 1, q + 1} \cap DOMAIN Grid : Grid[n].row = Grid[q].row}

\* a before b, number by number.
Before(a, b) ==
  \E i \in DOMAIN a : a[i] < b[i] /\ \A j \in 1 .. i - 1 : a[j] = b[j]
Largest(set) == CHOOSE n \in set : \A k \in set : k <= n

(***************************************************************************)
(* A leaf is confirmed by unused probes: first those next to a boundary of *)
(* its verdicts, one family at a time, then others on which its variants   *)
(* agree, then the rest.                                                   *)
(***************************************************************************)
_confirmations(group, unused, count) ==
  LET agree == {q \in unused : Cardinality(Outcomes(group, q)) = 1}
      boundary == {q \in agree :
                     \E v \in group, n \in _neighbours(q) : v.sig[q] # v.sig[n]}
      turn(q) == Cardinality({p \in boundary : p < q /\ Family(p) = Family(q)})
      rank(q) == IF q \in boundary THEN <<0, turn(q), Family(q)>>
                 ELSE IF q \in agree THEN <<1, q, 0>> ELSE <<2, q, 0>>
  IN  {q \in unused : Cardinality({p \in unused : Before(rank(p), rank(q))}) < count}

\* A probe is as good as the labels, then the variants, of its largest branch.
cost(group, q) ==
  LET branches == {Branch(group, q, o) : o \in Outcomes(group, q)}
  IN  <<Largest({Cardinality(Labels(b)) : b \in branches}),
        Largest({Cardinality(b) : b \in branches}), q>>

\* Only a probe that leaves fewer labels in every branch is worth asking.
splitting_labels(group, field) ==
  {q \in field : /\ Cardinality(Outcomes(group, q)) > 1
                 /\ cost(group, q)[1] < Cardinality(Labels(group))}
splitting(group, field) == {q \in field : Cardinality(Outcomes(group, q)) > 1}

RECURSIVE grow(_, _)
grow(group, field) ==
  LET splits == splitting(group, field)
      best == CHOOSE q \in splits : \A p \in splits \ {q} : Before(cost(group, q), cost(group, p))
  IN  IF Cardinality(Labels(group)) = 1 \/ splits = {}
      THEN [leaf |-> Labels(group), variants |-> group]
      ELSE [probe |-> best,
            branches |-> [o \in Outcomes(group, best) |-> grow(Branch(group, best, o), field)]]

RECURSIVE leaves(_)
leaves(t) == IF "leaf" \in DOMAIN t THEN {t}
             ELSE UNION {leaves(t.branches[o]) : o \in DOMAIN t.branches}

RECURSIVE tree_probes(_)
tree_probes(t) == IF "leaf" \in DOMAIN t THEN {}
                  ELSE {t.probe} \cup UNION {tree_probes(t.branches[o]) : o \in DOMAIN t.branches}

RECURSIVE depth(_)
depth(t) == IF "leaf" \in DOMAIN t THEN 0
            ELSE 1 + Largest({depth(t.branches[o]) : o \in DOMAIN t.branches})

\* What a confirmation may answer: only the first variant's verdict, or any's.
expect_first(group, q) == {(CHOOSE v \in group : TRUE).sig[q]}
expect(group, q) == Outcomes(group, q)

\* A leaf with its confirmations, in the order of the probes.
RECURSIVE confirmed(_, _)
confirmed(t, unused) ==
  IF "leaf" \in DOMAIN t
  THEN LET picks == SetToSortSeq(_confirmations(t.variants, unused, Confirm), <)
       IN  [leaf |-> t.leaf,
            confirm |-> [i \in DOMAIN picks |->
                           [probe |-> picks[i], expect |-> expect(t.variants, picks[i])]]]
  ELSE [t EXCEPT !.branches = [o \in DOMAIN @ |-> confirmed(@[o], unused)]]

build_tree(variants, field) ==
  LET grown == grow(variants, field)
  IN  confirmed(grown, field \ tree_probes(grown))

RECURSIVE route(_, _)
route(t, sig) ==
  IF "leaf" \in DOMAIN t THEN t
  ELSE IF sig[t.probe] \in DOMAIN t.branches THEN route(t.branches[sig[t.probe]], sig)
  ELSE "none"

(***************************************************************************)
(* identify: one step per probe run.                                       *)
(***************************************************************************)
\* The answer at a node: none before the last confirmation.
Reached(at) == IF "leaf" \in DOMAIN at /\ at.confirm = << >> THEN at.leaf ELSE {}

Init ==
  /\ map \in Maps /\ allowed \in Fields
  /\ tree = build_tree(map, allowed)
  /\ node = tree /\ used = << >> /\ report = << >> /\ heard = << >>
  /\ answer = Reached(tree)

\* The receiver's lane is 1; a report that does not decode is an exception.
run_probe(q) ==
  /\ answer = {}
  /\ report' \in Reports
  /\ used' = Append(used, q)
  /\ UNCHANGED <<map, allowed, tree>>
Decodes(events) == 1 \in DOMAIN decode(events)
Outcome == decode(report')[1]

Raise == ~Decodes(report') /\ answer' = {"raised"} /\ UNCHANGED <<node, heard>>
Hears(q) == Decodes(report') /\ heard' = [p \in DOMAIN heard \cup {q} |->
                                            IF p = q THEN Outcome ELSE heard[p]]

Ask ==
  /\ "probe" \in DOMAIN node
  /\ run_probe(node.probe)
  /\ \/ Raise
     \/ /\ Hears(node.probe)
        /\ IF Outcome \in DOMAIN node.branches
           THEN LET next == node.branches[Outcome]
                IN  node' = next /\ answer' = Reached(next)
           ELSE answer' = {"unknown"} /\ UNCHANGED node

Check ==
  /\ "leaf" \in DOMAIN node /\ node.confirm # << >>
  /\ run_probe(Head(node.confirm).probe)
  /\ \/ Raise
     \/ /\ Hears(Head(node.confirm).probe)
        /\ node' = [node EXCEPT !.confirm = Tail(@)]
        /\ answer' = IF Outcome \in Head(node.confirm).expect THEN Reached(node') ELSE {"unknown"}

Next == Ask \/ Check

Spec == Init /\ [][Next]_treeVars

Identified == answer \notin {{}, {"unknown"}, {"raised"}}
Agrees(v) == \A q \in DOMAIN heard : v.sig[q] = heard[q]

(***************************************************************************)
(* A receiver in the map, at whatever tick phase, is identified as a class *)
(* with its label and is never unknown; and nothing is identified but on   *)
(* fresh evidence: a leaf of the tree reached without a probe run twice,   *)
(* and as many confirmations as there are unused probes for, every one     *)
(* with the verdict of one of the variants of the leaf                     *)
(* (tools/fingerprint.py:175-238, 270-292).                                *)
(***************************************************************************)
AnswersRestOnEvidence ==
  /\ answer = {"unknown"} => \A v \in map : ~Agrees(v)
  /\ \A i, j \in DOMAIN used : used[i] = used[j] => i = j
  /\ Len(used) <= depth(tree) + Confirm
  /\ Identified =>
       LET path == tree_probes(tree) \cap DOMAIN heard
           like == {v \in map : \A q \in path : v.sig[q] = heard[q]}
           spare == Cardinality(allowed \ tree_probes(tree))
       IN  /\ like # {} /\ answer = Labels(like)
           /\ \A v \in like : answer = route(tree, v.sig).leaf
           /\ Cardinality(DOMAIN heard \ path) = IF spare < Confirm THEN spare ELSE Confirm
           /\ \A q \in DOMAIN heard : heard[q] \in Outcomes(like, q)

(***************************************************************************)
(* Receivers share an answer only if some of their variants give the same  *)
(* verdict on every allowed probe: labels with a separating probe, or that *)
(* are separable at all, are told apart however greedy the tree is         *)
(* (tools/fingerprint.py:161-168, 198-228, docs/verification.md:424).      *)
(***************************************************************************)
SeparableNeverShare ==
  Identified =>
    \A a, b \in answer : a # b =>
      LET of(label) == {v \in map : v.label = label}
      IN  ~separable(of(a), of(b), allowed) /\ separating(of(a), of(b), allowed) = {}

(***************************************************************************)
(* Only a clean report counts as a verdict: one pulse on the lane, exactly *)
(* as wide as the verdict is; any other capture raises                     *)
(* (tools/fingerprint.py:131-154).                                         *)
(***************************************************************************)
OnlyExactReportsCount ==
  [][heard' # heard =>
       LET high == {i \in DOMAIN report' : 1 \in report'[i].lanes}
           width(i) == report'[i + 1].time - report'[i].time
       IN  \E i \in high : /\ high = {i} /\ i < Len(report')
                            /\ WIDTHS[Outcome] = width(i)]_treeVars
=====================================================================================
