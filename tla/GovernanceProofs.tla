-------------------------- MODULE GovernanceProofs --------------------------
(***************************************************************************)
(* Theorems about Governance, for every set of objects, processes,         *)
(* authorities and plans, and every bound on the cases.                    *)
(*                                                                         *)
(* The argument: the event log and the cases are only appended, so what a  *)
(* case or an event says of earlier ones is kept, and only the step that   *)
(* stores it has to be looked at.  That step writes what its process read  *)
(* before, while other processes wrote; WorkOK says what of that reading   *)
(* is still true when it is used.                                          *)
(***************************************************************************)
EXTENDS Governance, SharedLemmas

-----------------------------------------------------------------------------
(* The first and the last entry of a log *)

\* Latest reads the last of the entries of its kinds.
LEMMA LastEntry ==
    ASSUME Sequence(log), NEW kinds, NEW x, Entries(kinds, x) # {}
    PROVE  \E i \in Entries(kinds, x) : /\ \A j \in Entries(kinds, x) : j <= i
                                        /\ Latest(kinds, x) = log[i].kind
<1> DEFINE found == Entries(kinds, x)
<1>1. found \in SUBSET (1 .. Len(log)) /\ Len(log) \in Nat
  BY Appended DEF Entries
<1>2. \E i \in found : \A j \in found : j <= i
  BY <1>1, Greatest
<1>3. PICK i \in found : (\A j \in found : j <= i)
                         /\ i = CHOOSE k \in found : \A j \in found : j <= k
  BY <1>2
<1> QED BY <1>3 DEF Latest

\* Earliest reads one of the entries of its kinds.
LEMMA FirstEntry ==
    ASSUME Sequence(log), NEW kinds, NEW x, Entries(kinds, x) # {}
    PROVE  \E i \in Entries(kinds, x) : Earliest(kinds, x) = log[i].kind
<1> DEFINE found == Entries(kinds, x)
<1>1. found \in SUBSET (1 .. Len(log)) /\ Len(log) \in Nat
  BY Appended DEF Entries
<1>2. \E i \in found : \A j \in found : i <= j
  BY <1>1, Least
<1>3. PICK i \in found : i = CHOOSE k \in found : \A j \in found : k <= j
  BY <1>2
<1> QED BY <1>3 DEF Earliest

-----------------------------------------------------------------------------
(* What is kept *)

CaseOK(i) ==
    LET c == cases[i]
    IN  /\ c \in Case
        /\ c.root \in Stored /\ c.root \in c.affected
        /\ c.seen \in 0 .. Len(log)
        /\ c.appeal = "under_review" => c.repair = "not_requested" /\ c.pause \in {"active", "denied"}

\* CaseChains, for one case.
ChainOK(i) ==
    LET c == cases[i]
        p == cases[c.prior]
    IN  /\ c.by \in Named
        /\ c.prior < i
        /\ c.appeal = "under_review" <=> c.prior = 0
        /\ c.prior # 0 => c.root = p.root /\ c.action = p.action
        /\ c.appeal = "adjudicated" =>
             p.appeal = "under_review" /\ p.pause = c.pause /\ c.repair = "not_requested"
        /\ c.appeal = "closed" =>
             /\ p.appeal = "adjudicated" /\ p.outcome = c.outcome
             /\ c.outcome \in {"upheld", "partial"}
             /\ c.repair = "impossible" => c.pause = p.pause

\* Something against x that the first n entries of the log do not lift.
Standing(x, n, against, lifting) ==
    \E j \in 1 .. n :
        /\ log[j].subject = x
        /\ log[j].kind = against
        /\ \A k \in j .. n : log[k].subject = x => log[k].kind # lifting

\* An offer of reuse that SuccessorHonest allows, after n entries.
HonestOffer(x, n, action) ==
    /\ action \notin {"revoke", "pause", "restrict"}
    /\ action # "restore" => ~Standing(x, n, "revoked", "restored")
    /\ action # "release_pause" => ~Standing(x, n, "paused", "released")

OfferOK(i) ==
    LET c == cases[i]
    IN  c.reuse => c.appeal = "closed" /\ HonestOffer(c.root, c.seen, c.action)

\* The decision behind an event of that kind.
Decided(i, kind) ==
    LET c == cases[i]
    IN  \/ c.appeal = "under_review" /\ c.pause = "active" /\ kind = "paused"
        \/ /\ c.appeal = "closed"
           /\ c.repair # "impossible"
           /\ cases[c.prior].outcome \in {"upheld", "partial"}
           /\ cases[c.prior].action \in Meaning[kind]

EventOK(j) ==
    /\ log[j] \in LogEntry
    /\ log[j].cause \in DOMAIN cases
    /\ log[j].subject \in cases[log[j].cause].affected
    /\ Decided(log[j].cause, log[j].kind)

ToldOnce ==
    \A j, k \in DOMAIN log :
        log[j].cause = log[k].cause /\ log[j].subject = log[k].subject => j = k

\* No process is cleared for x on what stood against it after n entries.
Cleared(x, n) ==
    \/ \A i \in 1 .. n : log[i].subject = x => log[i].kind \notin {"revoked", "paused"}
    \/ \E i \in DOMAIN log : log[i].subject = x /\ log[i].kind \in {"restored", "released"}

\* What a process read that is still true when it writes.
WorkOK(o) ==
    LET w == op[o]
    IN  /\ w \in Work
        /\ w.at = "opening" => w.by \in Named /\ w.root \in Stored /\ w.root \in w.closure
        /\ w.at = "repairing" =>
             /\ w.case \in DOMAIN cases /\ w.by \in Named
             /\ Repairable(cases[w.case], w.action)
             /\ cases[w.case].root \in w.closure
             /\ w.seen <= Len(log)
             /\ w.reuse => HonestOffer(cases[w.case].root, w.seen, w.action)
        /\ w.at = "propagating" =>
             /\ w.cause \in Owing
             /\ Decided(w.cause, w.kind)
             /\ w.left = cases[w.cause].affected \ Told(w.cause)
             /\ w.left # {}
        /\ w.at = "exporting" =>
             /\ w.sources \subseteq Stored /\ w.started <= Len(log)
             /\ \A x \in w.sources : Cleared(x, w.started)
        /\ w.at = "checking" =>
             /\ w.sources \subseteq Stored /\ w.started <= Len(log)
             /\ \A x \in w.sources \ w.left : Cleared(x, w.started)

\* A decision is propagated by one process at a time.
OneTeller ==
    \A o1, o2 \in Operators :
        op[o1].at = "propagating" /\ op[o2].at = "propagating" /\ op[o1].cause = op[o2].cause
            => o1 = o2

Reached(i) ==
    \/ Told(i) = cases[i].affected
    \/ i \in abandoned
    \/ \E o \in Operators : op[o].at = "propagating" /\ op[o].cause = i

LineageOK ==
    /\ Stored \subseteq Objects
    /\ \A x \in Stored : parents[x] \subseteq Stored

CasesOK == Sequence(cases) /\ \A i \in DOMAIN cases : CaseOK(i) /\ ChainOK(i) /\ OfferOK(i)

EventsOK == Sequence(log) /\ ToldOnce /\ \A j \in DOMAIN log : EventOK(j)

OperatorsOK == DOMAIN op = Operators /\ OneTeller /\ \A o \in Operators : WorkOK(o)

ReachOK == abandoned \subseteq DOMAIN cases /\ \A i \in Owing : Reached(i)

IInv == LineageOK /\ CasesOK /\ EventsOK /\ OperatorsOK /\ ReachOK

-----------------------------------------------------------------------------
(* What is stored stays right *)

Kept ==
    /\ Grows(log, log') /\ Grows(cases, cases')
    /\ Stored \subseteq Stored'

\* The positions of the log and of the cases are the numbers up to their lengths.
LEMMA Lengths ==
    ASSUME IInv
    PROVE  /\ Len(log) \in Nat /\ DOMAIN log = 1 .. Len(log)
           /\ Len(cases) \in Nat /\ DOMAIN cases = 1 .. Len(cases)
BY Appended DEF IInv, CasesOK, EventsOK

\* The log of one more event is longer.
LEMMA LogGrows ==
    ASSUME IInv, log' = log \/ \E e : log' = Append(log, e)
    PROVE  Grows(log, log') /\ Len(log') \in Nat /\ Len(log) <= Len(log')
<1>1. Grows(log, log')
  BY Grown DEF IInv, EventsOK, Grows
<1>2. CASE log' = log
  BY <1>1, <1>2, Lengths
<1>3. ASSUME NEW e, log' = Append(log, e) PROVE Len(log') \in Nat /\ Len(log) <= Len(log')
  BY <1>3, Lengths, Appended DEF IInv, EventsOK
<1> QED BY <1>1, <1>2, <1>3

\* The predecessor of a case is stored, unless the case opens its appeal.
LEMMA PriorStored ==
    ASSUME IInv, NEW i \in DOMAIN cases, cases[i].appeal # "under_review"
    PROVE  cases[i].prior \in DOMAIN cases
<1>1. cases[i].prior \in Nat /\ cases[i].prior # 0 /\ cases[i].prior < i
  BY DEF IInv, CasesOK, CaseOK, ChainOK, Case
<1> QED BY <1>1, Lengths

\* An offer of reuse that was honest at some length of the log stays so.
LEMMA OldOffer ==
    ASSUME Grows(log, log'), NEW n \in Nat, \A j \in 1 .. n : j \in DOMAIN log,
           NEW x, NEW action, HonestOffer(x, n, action)
    PROVE  HonestOffer(x, n, action)'
<1>1. \A j \in 1 .. n : log'[j] = log[j]
  BY DEF Grows
<1>2. ASSUME NEW against, NEW lifting, Standing(x, n, against, lifting)'
      PROVE  Standing(x, n, against, lifting)
  <2>1. PICK j \in 1 .. n : /\ log'[j].subject = x /\ log'[j].kind = against
                            /\ \A k \in j .. n : log'[k].subject = x => log'[k].kind # lifting
    BY <1>2 DEF Standing
  <2>2. \A k \in j .. n : k \in 1 .. n
    OBVIOUS
  <2> QED BY <1>1, <2>1, <2>2 DEF Standing
<1> QED BY <1>2 DEF HonestOffer

\* What a stored case says of earlier cases and of the log stays so.
LEMMA OldCase ==
    ASSUME IInv, Kept, log' = log \/ \E e : log' = Append(log, e), NEW i \in DOMAIN cases
    PROVE  CaseOK(i)' /\ ChainOK(i)' /\ OfferOK(i)'
<1>1. CaseOK(i) /\ ChainOK(i) /\ OfferOK(i) /\ cases'[i] = cases[i]
  BY DEF IInv, CasesOK, Kept, Grows
<1>2. CaseOK(i)'
  BY <1>1, LogGrows, Lengths DEF CaseOK, Kept
<1>3. ChainOK(i)'
  <2>1. CASE cases[i].appeal = "under_review"
    BY <1>1, <2>1 DEF ChainOK
  <2>2. CASE cases[i].appeal # "under_review"
    <3>1. cases'[cases[i].prior] = cases[cases[i].prior]
      BY <2>2, PriorStored DEF Kept, Grows
    <3> QED BY <1>1, <2>2, <3>1 DEF ChainOK
  <2> QED BY <2>1, <2>2
<1>4. OfferOK(i)'
  <2>1. cases[i].seen \in Nat /\ \A j \in 1 .. cases[i].seen : j \in DOMAIN log
    BY <1>1, Lengths DEF CaseOK
  <2> QED BY <1>1, <2>1, OldOffer DEF OfferOK, Kept
<1> QED BY <1>2, <1>3, <1>4

\* What was decided stays decided.
LEMMA OldDecision ==
    ASSUME IInv, Kept, NEW i \in DOMAIN cases, NEW kind, Decided(i, kind)
    PROVE  Decided(i, kind)'
<1>1. cases'[i] = cases[i]
  BY DEF Kept, Grows
<1>2. CASE cases[i].appeal = "under_review"
  BY <1>1, <1>2 DEF Decided
<1>3. CASE cases[i].appeal # "under_review"
  <2>1. cases'[cases[i].prior] = cases[cases[i].prior]
    BY <1>3, PriorStored DEF Kept, Grows
  <2> QED BY <1>1, <1>3, <2>1 DEF Decided
<1> QED BY <1>2, <1>3

\* The decision that explains an event goes on explaining it.
LEMMA OldEvent ==
    ASSUME IInv, Kept, NEW j \in DOMAIN log
    PROVE  EventOK(j)'
<1>1. EventOK(j) /\ log'[j] = log[j]
  BY DEF IInv, EventsOK, Kept, Grows
<1>2. Decided(log[j].cause, log[j].kind)'
  BY <1>1, OldDecision DEF EventOK
<1> QED BY <1>1, <1>2 DEF EventOK, Kept, Grows

\* What was cleared at some length of the log stays cleared there.
LEMMA OldCleared ==
    ASSUME IInv, Kept, NEW n \in Nat, n <= Len(log), NEW x, Cleared(x, n)
    PROVE  Cleared(x, n)'
<1>1. \A i \in DOMAIN log : i \in DOMAIN log' /\ log'[i] = log[i]
  BY DEF Kept, Grows
<1>2. \A i \in 1 .. n : i \in DOMAIN log
  BY Lengths
<1> QED BY <1>1, <1>2 DEF Cleared

\* A case that owes its closure events goes on owing them.
LEMMA OldOwing ==
    ASSUME Kept, NEW i \in Owing
    PROVE  i \in Owing' /\ cases'[i] = cases[i]
BY DEF Kept, Grows, Owing

\* What a process read is not changed by the steps of the others.
LEMMA OtherWork ==
    ASSUME IInv, Kept, log' = log \/ \E e : log' = Append(log, e),
           NEW o \in Operators, op'[o] = op[o],
           op[o].at = "propagating" =>
             \A i \in Owing : i = op[o].cause => Told(i)' = Told(i)
    PROVE  WorkOK(o)'
<1>1. WorkOK(o) /\ op[o] \in Work
  BY DEF IInv, OperatorsOK, WorkOK
<1>2. Len(log) \in Nat /\ Len(log') \in Nat /\ Len(log) <= Len(log')
  BY Lengths, LogGrows
<1> PICK w : w = op[o]
  OBVIOUS
<1>3. op'[o] = w /\ w \in Work
  BY <1>1
<1>4. CASE w.at = "idle"
  BY <1>3, <1>4 DEF WorkOK
<1>5. CASE w.at = "opening"
  BY <1>1, <1>3, <1>5 DEF WorkOK, Kept
<1>6. CASE w.at = "repairing"
  <2>1. w.seen \in Nat
    BY <1>3, <1>6 DEF Work
  <2>2. cases'[w.case] = cases[w.case] /\ w.case \in DOMAIN cases'
    BY <1>1, <1>6 DEF WorkOK, Kept, Grows
  <2>3. w.reuse => HonestOffer(cases[w.case].root, w.seen, w.action)'
    <3>1. \A j \in 1 .. w.seen : j \in DOMAIN log
      BY <1>1, <1>2, <1>6, <2>1, Lengths DEF WorkOK
    <3>2. PICK r : r = cases[w.case].root
      OBVIOUS
    <3>3. w.reuse => HonestOffer(r, w.seen, w.action)
      BY <1>1, <1>6, <3>2 DEF WorkOK
    <3>4. w.reuse => HonestOffer(r, w.seen, w.action)'
      BY <2>1, <3>1, <3>3, OldOffer DEF Kept
    <3> QED BY <2>2, <3>2, <3>4
  <2>4. Repairable(cases[w.case], w.action)'
    BY <1>1, <1>6, <2>2 DEF WorkOK, Repairable, Favourable
  <2> QED BY <1>1, <1>2, <1>3, <1>6, <2>1, <2>2, <2>3, <2>4 DEF WorkOK
<1>7. CASE w.at = "propagating"
  <2>1. w.cause \in Owing /\ Decided(w.cause, w.kind)
    BY <1>1, <1>7 DEF WorkOK
  <2>2. Told(w.cause)' = Told(w.cause)
    BY <1>7, <2>1
  <2>3. Decided(w.cause, w.kind)'
    BY <2>1, OldDecision DEF Owing
  <2> QED BY <1>1, <1>3, <1>7, <2>1, <2>2, <2>3, OldOwing DEF WorkOK
<1>8. CASE w.at \in {"exporting", "checking"}
  <2>1. w.started \in Nat
    BY <1>3, <1>8 DEF Work
  <2> QED BY <1>1, <1>2, <1>3, <1>8, <2>1, OldCleared DEF WorkOK, Kept
<1> QED BY <1>3, <1>4, <1>5, <1>6, <1>7, <1>8 DEF Work

-----------------------------------------------------------------------------
(* Steps that store neither a case nor an event *)

OnlyOf(o) == DOMAIN op' = Operators /\ \A p \in Operators \ {o} : op'[p] = op[p]

\* An operator's step changes its own work only.
LEMMA Sets ==
    ASSUME IInv, NEW o \in Operators, NEW w, op' = [op EXCEPT ![o] = w]
    PROVE  OnlyOf(o) /\ op'[o] = w
BY DEF IInv, OperatorsOK, OnlyOf

\* An idle operator claims nothing.
LEMMA IdleOK ==
    ASSUME NEW o \in Operators, op[o] = Idle
    PROVE  WorkOK(o) /\ op[o].at = "idle"
BY DEF WorkOK, Idle, Work

\* A process that does not tell afterwards, and is stopped if it did before.
LEMMA LocalStep ==
    ASSUME IInv, NEW o \in Operators, OnlyOf(o), UNCHANGED <<log, cases>>,
           LineageOK', Stored \subseteq Stored',
           abandoned \subseteq abandoned', abandoned' \subseteq DOMAIN cases,
           op[o].at = "propagating" => op[o].cause \in abandoned',
           op'[o].at # "propagating", WorkOK(o)'
    PROVE  IInv'
<1>1. Kept
  BY Grown DEF IInv, CasesOK, EventsOK, Kept, Grows
<1>2. CasesOK'
  BY <1>1, OldCase DEF CasesOK, Kept, Grows
<1>3. EventsOK'
  BY <1>1, OldEvent DEF IInv, EventsOK, ToldOnce, Kept, Grows
<1>4. \A i : Told(i)' = Told(i)
  BY DEF Told
<1>5. OperatorsOK'
  <2>1. OneTeller'
    BY DEF IInv, OperatorsOK, OneTeller, OnlyOf
  <2>2. \A p \in Operators : WorkOK(p)'
    BY <1>1, <1>4, OtherWork DEF OnlyOf
  <2> QED BY <2>1, <2>2 DEF OperatorsOK, OnlyOf
<1>6. ReachOK'
  <2>1. Owing' = Owing
    BY DEF Owing
  <2>2. ASSUME NEW i \in Owing PROVE Reached(i)'
    <3>1. Reached(i)
      BY DEF IInv, ReachOK
    <3>2. CASE Told(i) = cases[i].affected
      BY <1>4, <3>2 DEF Reached
    <3>3. CASE i \in abandoned
      BY <3>3 DEF Reached
    <3>4. CASE \E p \in Operators : op[p].at = "propagating" /\ op[p].cause = i
      BY <3>4 DEF Reached, OnlyOf
    <3> QED BY <3>1, <3>2, <3>3, <3>4 DEF Reached
  <2> QED BY <2>1, <2>2 DEF ReachOK
<1> QED BY <1>2, <1>3, <1>5, <1>6 DEF IInv

\* A process that begins, goes on with or ends work that tells nobody.
LEMMA OwnStep ==
    ASSUME IInv, NEW o \in Operators, OnlyOf(o), UNCHANGED <<parents, log, cases, abandoned>>,
           op[o].at # "propagating", op'[o].at # "propagating", WorkOK(o)'
    PROVE  IInv'
<1>1. LineageOK' /\ Stored' = Stored
  BY DEF IInv, LineageOK, Stored
<1> QED BY <1>1, LocalStep DEF IInv, ReachOK

\* A closure has its root, and objects only.
LEMMA Descends ==
    ASSUME IInv, NEW root \in Stored
    PROVE  root \in Closure(root) /\ Closure(root) \subseteq Objects
BY DEF Closure, IInv, LineageOK

\* open_appeal() reads its target's closure before its transaction.
LEMMA ReadForAppealKeeps ==
    ASSUME IInv, NEW o \in Operators, NEW root \in Objects, NEW action \in Requests,
           NEW by \in Authorities, NEW pauseNow \in BOOLEAN,
           ReadForAppeal(o, root, action, by, pauseNow)
    PROVE  IInv'
<1> DEFINE w == [at |-> "opening", root |-> root, action |-> action, by |-> by,
                 pauseNow |-> pauseNow, closure |-> Closure(root)]
<1>1. op[o] = Idle /\ op' = [op EXCEPT ![o] = w] /\ by \in Named /\ root \in Stored
  BY DEF ReadForAppeal, Begin
<1>2. OnlyOf(o) /\ op'[o] = w
  BY <1>1, Sets
<1>3. w \in Work
  BY <1>1, Descends, GovernanceAssumption DEF Work
<1>4. WorkOK(o)'
  BY <1>1, <1>2, <1>3, Descends DEF WorkOK, ReadForAppeal, Stored
<1> QED BY <1>1, <1>2, <1>4, IdleOK, OwnStep DEF ReadForAppeal

\* export_projection() reads the authorization before its transaction.
LEMMA CheckExportKeeps ==
    ASSUME IInv, NEW o \in Operators, NEW target \in Objects, CheckExport(o, target)
    PROVE  IInv'
<1> DEFINE w == [at |-> "exporting", sources |-> {target}, started |-> Len(log)]
           kinds == {"revoked", "restored", "paused", "released"}
<1>1. op[o] = Idle /\ op' = [op EXCEPT ![o] = w] /\ target \in Stored
  BY DEF CheckExport, Begin
<1>2. OnlyOf(o) /\ op'[o] = w
  BY <1>1, Sets
<1>3. w \in Work
  BY Lengths DEF Work
<1>4. Latest(kinds, target) \notin {"revoked", "paused"}
  BY DEF CheckExport, CurrentAuthorization
<1>5. Cleared(target, Len(log))
  <2>1. CASE Entries(kinds, target) = {}
    BY <2>1, Lengths DEF Cleared, Entries
  <2>2. CASE Entries(kinds, target) # {}
    <3>1. PICK i \in Entries(kinds, target) : Latest(kinds, target) = log[i].kind
      BY <2>2, LastEntry DEF IInv, EventsOK
    <3> QED BY <1>4, <3>1 DEF Cleared, Entries
  <2> QED BY <2>1, <2>2
<1>6. WorkOK(o)'
  BY <1>1, <1>2, <1>3, <1>5, Lengths DEF WorkOK, CheckExport, Stored, Cleared
<1> QED BY <1>1, <1>2, <1>6, IdleOK, OwnStep DEF CheckExport

\* transduce() begins with all its sources unchecked.
LEMMA BeginTransduceKeeps ==
    ASSUME IInv, NEW o \in Operators, NEW sources \in SUBSET Objects, BeginTransduce(o, sources)
    PROVE  IInv'
<1> DEFINE w == [at |-> "checking", sources |-> sources, left |-> sources, started |-> Len(log)]
<1>1. op[o] = Idle /\ op' = [op EXCEPT ![o] = w] /\ sources \subseteq Stored
  BY DEF BeginTransduce, Begin
<1>2. OnlyOf(o) /\ op'[o] = w
  BY <1>1, Sets
<1>3. w \in Work
  BY Lengths DEF Work
<1>4. WorkOK(o)'
  BY <1>1, <1>2, <1>3, Lengths DEF WorkOK, BeginTransduce, Stored
<1> QED BY <1>1, <1>2, <1>4, IdleOK, OwnStep DEF BeginTransduce

\* transduce() checks one source, which is then cleared at this length of the log.
LEMMA CheckSourceKeeps ==
    ASSUME IInv, NEW o \in Operators, NEW source \in Objects, CheckSource(o, source)
    PROVE  IInv'
<1>1. op[o].at = "checking" /\ source \in op[o].left /\ UNCHANGED <<parents, log, cases, abandoned>>
  BY DEF CheckSource
<1>2. CASE IsBlocked(source)
  <2>1. op' = [op EXCEPT ![o] = Idle]
    BY <1>2 DEF CheckSource
  <2>2. OnlyOf(o) /\ op'[o] = Idle
    BY <2>1, Sets
  <2>3. WorkOK(o)' /\ op'[o].at = "idle"
    BY <2>2, IdleOK DEF WorkOK, Idle, Work
  <2> QED BY <1>1, <2>2, <2>3, OwnStep
<1>3. CASE ~IsBlocked(source)
  <2> DEFINE w == [op[o] EXCEPT !.left = op[o].left \ {source}]
  <2>1. op' = [op EXCEPT ![o] = w]
    BY <1>3 DEF CheckSource
  <2>2. OnlyOf(o) /\ op'[o] = w
    BY <2>1, Sets
  <2>3. /\ op[o].sources \in SUBSET Objects /\ op[o].left \in SUBSET Objects /\ op[o].started \in Nat
        /\ w \in [at : {"checking"}, sources : SUBSET Objects, left : SUBSET Objects, started : Nat]
        /\ w.sources = op[o].sources /\ w.started = op[o].started
        /\ w.left = op[o].left \ {source}
    <3>1. op[o] \in [at : {"checking"}, sources : SUBSET Objects, left : SUBSET Objects, started : Nat]
      BY <1>1 DEF IInv, OperatorsOK, WorkOK, Work
    <3> QED BY <3>1
  <2>4. Cleared(source, op[o].started)
    <3>1. CASE Entries(EventKinds, source) = {}
      <4>1. \A i \in DOMAIN log : log[i].kind \in EventKinds
        BY DEF IInv, EventsOK, EventOK, LogEntry
      <4>2. \A i \in 1 .. op[o].started : i \in DOMAIN log
        BY <1>1, <2>3, Lengths DEF IInv, OperatorsOK, WorkOK
      <4> QED BY <3>1, <4>1, <4>2 DEF Cleared, Entries
    <3>2. CASE Entries(EventKinds, source) # {}
      <4>1. PICK i \in Entries(EventKinds, source) : Earliest(EventKinds, source) = log[i].kind
        BY <3>2, FirstEntry DEF IInv, EventsOK
      <4>2. log[i].kind \in {"restored", "released"}
        BY <1>3, <4>1 DEF IsBlocked, Entries, EventKinds
      <4> QED BY <4>1, <4>2 DEF Cleared, Entries
    <3> QED BY <3>1, <3>2
  <2>5. WorkOK(o)'
    <3>1. WorkOK(o)
      BY DEF IInv, OperatorsOK
    <3>2. \A x \in w.sources \ w.left : Cleared(x, w.started)
      BY <1>1, <2>3, <2>4, <3>1 DEF WorkOK
    <3> QED BY <1>1, <2>2, <2>3, <3>1, <3>2 DEF WorkOK, Work, Cleared, Stored
  <2> QED BY <1>1, <2>2, <2>3, <2>5, OwnStep
<1> QED BY <1>2, <1>3

\* What stands against an object is the latest event of its axis.
LEMMA StandingIsLatest ==
    ASSUME IInv, NEW x, NEW against, NEW lifting, against # lifting,
           Standing(x, Len(log), against, lifting)
    PROVE  Latest({against, lifting}, x) = against
<1> DEFINE kinds == {against, lifting}
<1>1. PICK j \in 1 .. Len(log) :
         /\ log[j].subject = x /\ log[j].kind = against
         /\ \A k \in j .. Len(log) : log[k].subject = x => log[k].kind # lifting
  BY DEF Standing
<1>2. j \in Entries(kinds, x)
  BY <1>1, Lengths DEF Entries
<1>3. PICK i \in Entries(kinds, x) : (\A k \in Entries(kinds, x) : k <= i)
                                      /\ Latest(kinds, x) = log[i].kind
  BY <1>2, LastEntry DEF IInv, EventsOK
<1>4. i \in j .. Len(log)
  BY <1>2, <1>3, Lengths DEF Entries
<1> QED BY <1>1, <1>3, <1>4 DEF Entries

\* A state that offers reuse is one the log permits to be reused.
LEMMA OffersHonestly ==
    ASSUME IInv, NEW x, NEW action, OffersReuse(action, PolicyState(x))
    PROVE  HonestOffer(x, Len(log), action)
<1> DEFINE before == PolicyState(x)
<1>1. /\ before.authorization = "permitted" => ~Standing(x, Len(log), "revoked", "restored")
      /\ before.pause # "active" => ~Standing(x, Len(log), "paused", "released")
  BY StandingIsLatest DEF PolicyState
<1>2. CASE action = "restore"
  <2>1. ChangedState(action, before).pause = before.pause
    BY <1>2 DEF ChangedState, PolicyState
  <2> QED BY <1>1, <1>2, <2>1 DEF OffersReuse, Executable, HonestOffer
<1>3. CASE action = "release_pause"
  <2>1. ChangedState(action, before).authorization = before.authorization
    BY <1>3 DEF ChangedState, PolicyState
  <2> QED BY <1>1, <1>3, <2>1 DEF OffersReuse, Executable, HonestOffer
<1>4. CASE action = "correct" /\ Executable(before)
  BY <1>1, <1>4 DEF Executable, HonestOffer
<1> QED BY <1>2, <1>3, <1>4 DEF OffersReuse

\* apply_repair() reads case, closure and policy before its transaction.
LEMMA ReadForRepairKeeps ==
    ASSUME IInv, NEW o \in Operators, NEW i \in DOMAIN cases, NEW action \in Requests,
           NEW by \in Authorities, NEW plan \in Plans, ReadForRepair(o, i, action, by, plan)
    PROVE  IInv'
<1> DEFINE x == cases[i].root
           offer == plan.feasible /\ action # "delete" /\ OffersReuse(action, PolicyState(x))
           w == [at |-> "repairing", case |-> i, action |-> action, by |-> by, plan |-> plan,
                 closure |-> Closure(x), reuse |-> offer, seen |-> Len(log)]
<1>1. op[o] = Idle /\ op' = [op EXCEPT ![o] = w] /\ by \in Named /\ Repairable(cases[i], action)
  BY DEF ReadForRepair, Begin
<1>2. OnlyOf(o) /\ op'[o] = w
  BY <1>1, Sets
<1>3. x \in Stored /\ x \in Closure(x) /\ Closure(x) \subseteq Objects
  BY Descends DEF IInv, CasesOK, CaseOK
<1>4. offer \in BOOLEAN
  <2>1. plan.feasible \in BOOLEAN
    BY GovernanceAssumption
  <2> QED BY <2>1
<1>5. w \in Work
  BY <1>3, <1>4, Lengths, GovernanceAssumption DEF Work
<1>6. offer => HonestOffer(x, Len(log), action)
  BY OffersHonestly
<1>7. WorkOK(o)'
  <2> HIDE DEF offer
  <2>1. UNCHANGED <<parents, log, cases, abandoned>>
    BY DEF ReadForRepair
  <2>2. w.reuse => HonestOffer(x, Len(log), action)'
    BY <1>6, <2>1 DEF HonestOffer, Standing
  <2>3. w.at = "repairing" /\ w.case = i /\ w.seen = Len(log) /\ w.closure = Closure(x)
        /\ w.by = by /\ w.action = action
    OBVIOUS
  <2> QED BY <1>1, <1>2, <1>3, <1>5, <2>1, <2>2, <2>3, Lengths DEF WorkOK
<1> QED BY <1>1, <1>2, <1>7, IdleOK, OwnStep DEF ReadForRepair

\* A new object derives from stored ones.
LEMMA DeriveKeeps ==
    ASSUME IInv, NEW new \in Objects, NEW sources \in SUBSET Stored, Derive(new, sources)
    PROVE  LineageOK' /\ Stored \subseteq Stored'
<1>1. Stored' = Stored \cup {new} /\ new \in Objects
      /\ \A x \in Stored' : parents'[x] = IF x = new THEN sources ELSE parents[x]
  BY DEF Derive, Stored
<1> QED BY <1>1 DEF IInv, LineageOK

\* The transaction of export_projection() stores what its check had allowed.
LEMMA ExportKeeps ==
    ASSUME IInv, NEW o \in Operators, NEW new \in Objects, Export(o, new)
    PROVE  IInv'
<1>1. op[o].at = "exporting" /\ op' = [op EXCEPT ![o] = Idle] /\ UNCHANGED <<log, cases, abandoned>>
  BY DEF Export
<1>2. OnlyOf(o) /\ op'[o] = Idle
  BY <1>1, Sets
<1>3. op[o].sources \in SUBSET Stored
  BY <1>1 DEF IInv, OperatorsOK, WorkOK
<1>4. LineageOK' /\ Stored \subseteq Stored'
  BY <1>3, DeriveKeeps DEF Export
<1>5. WorkOK(o)' /\ op'[o].at = "idle"
  BY <1>2 DEF WorkOK, Idle, Work
<1> QED BY <1>1, <1>2, <1>4, <1>5, LocalStep DEF IInv, ReachOK

\* The transaction of transduce() stores a product of sources that were cleared.
LEMMA TransduceKeeps ==
    ASSUME IInv, NEW o \in Operators, Transduce(o)
    PROVE  IInv'
<1>1. op[o].at = "checking" /\ op' = [op EXCEPT ![o] = Idle] /\ UNCHANGED <<log, cases, abandoned>>
  BY DEF Transduce
<1>2. OnlyOf(o) /\ op'[o] = Idle
  BY <1>1, Sets
<1>3. op[o].sources \in SUBSET Stored
  BY <1>1 DEF IInv, OperatorsOK, WorkOK
<1>4. LineageOK' /\ Stored \subseteq Stored'
  <2>1. CASE UNCHANGED parents
    BY <2>1 DEF IInv, LineageOK, Stored
  <2>2. ASSUME NEW new \in Objects, NEW others \in SUBSET (Stored \ op[o].sources),
               Derive(new, op[o].sources \cup others)
        PROVE  LineageOK' /\ Stored \subseteq Stored'
    <3>1. op[o].sources \cup others \in SUBSET Stored
      BY <1>3
    <3> QED BY <2>2, <3>1, DeriveKeeps
  <2> QED BY <2>1, <2>2 DEF Transduce
<1>5. WorkOK(o)' /\ op'[o].at = "idle"
  BY <1>2 DEF WorkOK, Idle, Work
<1> QED BY <1>1, <1>2, <1>4, <1>5, LocalStep DEF IInv, ReachOK

\* An operator that stops abandons what it had yet to tell.
LEMMA StopKeeps ==
    ASSUME IInv, NEW o \in Operators, Stop(o)
    PROVE  IInv'
<1>1. op' = [op EXCEPT ![o] = Idle] /\ UNCHANGED <<parents, log, cases>>
      /\ abandoned' = IF op[o].at = "propagating" THEN abandoned \cup {op[o].cause} ELSE abandoned
  BY DEF Stop
<1>2. OnlyOf(o) /\ op'[o] = Idle
  BY <1>1, Sets
<1>3. LineageOK' /\ Stored \subseteq Stored'
  BY <1>1 DEF IInv, LineageOK, Stored
<1>4. op[o].at = "propagating" => op[o].cause \in DOMAIN cases
  BY DEF IInv, OperatorsOK, WorkOK, Owing
<1>5. abandoned \subseteq abandoned' /\ abandoned' \subseteq DOMAIN cases
      /\ (op[o].at = "propagating" => op[o].cause \in abandoned')
  BY <1>1, <1>4 DEF IInv, ReachOK
<1>6. WorkOK(o)' /\ op'[o].at = "idle"
  BY <1>2 DEF WorkOK, Idle, Work
<1> QED BY <1>1, <1>2, <1>3, <1>5, <1>6, LocalStep

-----------------------------------------------------------------------------
(* Steps that store a case *)

\* What the new case leaves as it was.
LEMMA NewCase ==
    ASSUME IInv, NEW c, cases' = Append(cases, c), UNCHANGED <<parents, log, abandoned>>,
           NEW n \in Nat, n = Len(cases) + 1, CaseOK(n)', ChainOK(n)', OfferOK(n)'
    PROVE  /\ Kept /\ LineageOK' /\ CasesOK' /\ EventsOK'
           /\ Len(cases') = n /\ cases'[n] = c /\ n \notin DOMAIN cases
           /\ abandoned' \subseteq DOMAIN cases'
           /\ \A i : Told(i)' = Told(i)
           /\ Told(n) = {}
           /\ \A i \in Owing' : i \in Owing \/ i = n
           /\ \A i \in Owing : i \in Owing' /\ cases'[i] = cases[i]
<1>1. /\ Sequence(cases') /\ DOMAIN cases = 1 .. Len(cases) /\ DOMAIN cases' = 1 .. n
      /\ Len(cases') = n /\ cases'[n] = c
      /\ \A i \in DOMAIN cases : i \in DOMAIN cases' /\ cases'[i] = cases[i]
  BY Appended DEF IInv, CasesOK
<1>2. Kept
  BY <1>1, LogGrows DEF Kept, Grows, Stored
<1>3. LineageOK'
  BY DEF IInv, LineageOK, Stored
<1>4. \A i \in DOMAIN cases' : i \in DOMAIN cases \/ i = n
  BY <1>1, Lengths
<1>5. CasesOK'
  BY <1>1, <1>2, <1>4, OldCase DEF CasesOK
<1>6. EventsOK'
  BY <1>2, OldEvent DEF IInv, EventsOK, ToldOnce
<1>7. n \notin DOMAIN cases
  BY Lengths
<1>8. Told(n) = {}
  BY <1>7 DEF IInv, EventsOK, EventOK, Told
<1>9. \A i : Told(i)' = Told(i)
  BY DEF Told
<1>10. \A i \in Owing' : i \in Owing \/ i = n
  BY <1>1, <1>4 DEF Owing
<1> QED BY <1>1, <1>2, <1>3, <1>5, <1>6, <1>7, <1>8, <1>9, <1>10, OldOwing DEF IInv, ReachOK

\* adjudicate() adds one decision to a case that is under review.
LEMMA AdjudicateKeeps ==
    ASSUME IInv, NEW i \in DOMAIN cases, NEW by \in Authorities, NEW outcome \in Outcomes,
           Adjudicate(i, by, outcome)
    PROVE  IInv'
<1> PICK p : p = cases[i]
  OBVIOUS
<1> PICK n : n = Len(cases) + 1
  OBVIOUS
<1> DEFINE c == [p EXCEPT !.appeal = "adjudicated", !.outcome = outcome, !.by = by, !.prior = i]
<1>1. /\ by \in Named /\ p.appeal = "under_review"
      /\ cases' = Append(cases, c) /\ UNCHANGED <<parents, log, op, abandoned>>
  BY DEF Adjudicate, StoreCase
<1>2. CaseOK(i) /\ ChainOK(i) /\ OfferOK(i) /\ p \in Case
  BY DEF IInv, CasesOK, CaseOK
<1>3. n \in Nat /\ i \in Nat /\ i < n /\ i # 0 /\ cases'[n] = c /\ cases'[i] = p
  BY <1>1, Appended, Lengths DEF IInv, CasesOK
<1>4. /\ c \in Case /\ c.root = p.root /\ c.action = p.action /\ c.affected = p.affected
      /\ c.pause = p.pause /\ c.repair = p.repair /\ c.reuse = p.reuse /\ c.seen = p.seen
      /\ c.appeal = "adjudicated" /\ c.by = by /\ c.prior = i
  BY <1>2, <1>3, GovernanceAssumption DEF Case
<1>5. CaseOK(n)' /\ ChainOK(n)' /\ OfferOK(n)'
  <2> HIDE DEF c
  <2>1. CaseOK(n)'
    BY <1>1, <1>2, <1>3, <1>4 DEF CaseOK, Stored
  <2>2. ChainOK(n)'
    BY <1>1, <1>2, <1>3, <1>4 DEF ChainOK, CaseOK
  <2>3. OfferOK(n)'
    BY <1>1, <1>2, <1>3, <1>4 DEF OfferOK
  <2> QED BY <2>1, <2>2, <2>3
<1> HIDE DEF c
<1>6. /\ Kept /\ LineageOK' /\ CasesOK' /\ EventsOK' /\ abandoned' \subseteq DOMAIN cases'
      /\ \A j : Told(j)' = Told(j)
      /\ \A j \in Owing' : j \in Owing \/ j = n
      /\ \A j \in Owing : cases'[j] = cases[j]
  BY <1>1, <1>3, <1>5, NewCase
<1>7. OperatorsOK'
  BY <1>1, <1>6, OtherWork DEF IInv, OperatorsOK, OneTeller
<1>8. n \notin Owing'
  BY <1>3, <1>4 DEF Owing
<1>9. ReachOK'
  BY <1>1, <1>6, <1>8 DEF IInv, ReachOK, Reached
<1> QED BY <1>6, <1>7, <1>9 DEF IInv

\* A decision that its process goes on to tell, or that owes no event.
LEMMA DecisionStored ==
    ASSUME IInv, NEW o \in Operators, OnlyOf(o), op[o].at # "propagating",
           NEW c, cases' = Append(cases, c), UNCHANGED <<parents, log, abandoned>>,
           NEW n \in Nat, n = Len(cases) + 1, CaseOK(n)', ChainOK(n)', OfferOK(n)',
           NEW kind \in EventKinds,
           \/ op'[o] = Idle /\ n \notin Owing'
           \/ /\ op'[o] = [at |-> "propagating", kind |-> kind, cause |-> n, left |-> c.affected]
              /\ n \in Owing' /\ Decided(n, kind)'
    PROVE  IInv'
<1>1. /\ Kept /\ LineageOK' /\ CasesOK' /\ EventsOK' /\ abandoned' \subseteq DOMAIN cases'
      /\ cases'[n] = c /\ n \notin DOMAIN cases
      /\ \A j : Told(j)' = Told(j)
      /\ Told(n) = {}
      /\ \A j \in Owing' : j \in Owing \/ j = n
      /\ \A j \in Owing : cases'[j] = cases[j]
  BY NewCase
<1>2. \A p \in Operators \ {o} : WorkOK(p)'
  BY <1>1, OtherWork DEF OnlyOf
<1>3. \A p \in Operators : op[p].at = "propagating" => op[p].cause \in DOMAIN cases
  BY DEF IInv, OperatorsOK, WorkOK, Owing
<1>6. \A j \in Owing : Reached(j)'
  <2> TAKE j \in Owing
  <2>1. Reached(j) /\ cases'[j] = cases[j] /\ Told(j)' = Told(j)
    BY <1>1 DEF IInv, ReachOK
  <2>2. ASSUME NEW p \in Operators, op[p].at = "propagating", op[p].cause = j
        PROVE  Reached(j)'
    <3>1. op'[p] = op[p]
      BY <2>2 DEF OnlyOf
    <3> QED BY <2>2, <3>1 DEF Reached
  <2>3. CASE Told(j) = cases[j].affected \/ j \in abandoned
    BY <2>1, <2>3 DEF Reached
  <2> QED BY <2>1, <2>2, <2>3 DEF Reached
<1>4. CASE op'[o] = Idle /\ n \notin Owing'
  <2>1. WorkOK(o)' /\ op'[o].at # "propagating"
    BY <1>4 DEF WorkOK, Idle, Work
  <2>2. OneTeller'
    BY <2>1 DEF IInv, OperatorsOK, OneTeller, OnlyOf
  <2>3. OperatorsOK'
    BY <1>2, <2>1, <2>2 DEF OperatorsOK, OnlyOf
  <2>4. ReachOK'
    BY <1>1, <1>4, <1>6 DEF ReachOK
  <2> QED BY <1>1, <2>3, <2>4 DEF IInv
<1>5. CASE /\ op'[o] = [at |-> "propagating", kind |-> kind, cause |-> n, left |-> c.affected]
           /\ n \in Owing' /\ Decided(n, kind)'
  <2> PICK w : w = op'[o]
    OBVIOUS
  <2>1. /\ w.at = "propagating" /\ w.kind = kind /\ w.cause = n /\ w.left = c.affected
    BY <1>5
  <2>2. n # 0 /\ c \in Case /\ c.root \in c.affected
    BY <1>1, Lengths DEF CaseOK
  <2>3. w \in Work
    <3>1. c.affected \in SUBSET Objects
      BY <2>2 DEF Case
    <3> QED BY <1>5, <2>2, <3>1 DEF Work
  <2>4. WorkOK(o)'
    BY <1>1, <1>5, <2>1, <2>2, <2>3 DEF WorkOK
  <2>5. OneTeller'
    BY <1>1, <1>3, <2>1 DEF IInv, OperatorsOK, OneTeller, OnlyOf
  <2>6. OperatorsOK'
    BY <1>2, <2>4, <2>5 DEF OperatorsOK, OnlyOf
  <2>7. ReachOK'
    <3>1. Reached(n)'
      BY <2>1 DEF Reached
    <3> QED BY <1>1, <1>6, <3>1 DEF ReachOK
  <2> QED BY <1>1, <2>6, <2>7 DEF IInv
<1> QED BY <1>4, <1>5

\* The transaction of open_appeal() adds a case and perhaps a pause.
LEMMA OpenAppealKeeps ==
    ASSUME IInv, NEW o \in Operators, OpenAppeal(o)
    PROVE  IInv'
<1> PICK n : n = Len(cases) + 1
  OBVIOUS
<1> PICK w : w = op[o]
  OBVIOUS
<1> DEFINE c == [root |-> w.root, action |-> w.action, appeal |-> "under_review",
                 pause |-> IF w.pauseNow THEN "active" ELSE "denied",
                 outcome |-> "not_decided", repair |-> "not_requested",
                 affected |-> w.closure, by |-> w.by, prior |-> 0, reuse |-> FALSE, seen |-> 0]
           members == IF w.pauseNow THEN w.closure ELSE {}
           next == IF members = {} THEN Idle
                   ELSE [at |-> "propagating", kind |-> "paused", cause |-> n, left |-> members]
<1>1. n \in Nat /\ Len(Append(cases, c)) = n /\ Append(cases, c)[n] = c
  BY Lengths, Appended DEF IInv, CasesOK
<1>2. /\ w.at = "opening" /\ cases' = Append(cases, c) /\ op' = [op EXCEPT ![o] = next]
      /\ UNCHANGED <<parents, log, abandoned>>
  BY <1>1 DEF OpenAppeal, StoreCase, Propagate, ToTell
<1>3. OnlyOf(o) /\ op'[o] = next
  BY <1>2, Sets
<1>4. /\ w \in [at : {"opening"}, root : Objects, action : RepairActions, by : Authorities,
                 pauseNow : BOOLEAN, closure : SUBSET Objects]
      /\ w.by \in Named /\ w.root \in Stored /\ w.root \in w.closure
  BY <1>2 DEF IInv, OperatorsOK, WorkOK, Work
<1>5. /\ c \in Case /\ c.root \in Stored /\ c.root \in c.affected /\ c.by \in Named
      /\ c.prior = 0 /\ c.seen = 0 /\ c.appeal = "under_review" /\ c.repair = "not_requested"
      /\ c.pause \in {"active", "denied"} /\ c.reuse = FALSE /\ c.affected = w.closure
      /\ (c.pause = "active" <=> w.pauseNow = TRUE)
  BY <1>4 DEF Case
<1> HIDE DEF c
<1>6. cases'[n] = c /\ n \in DOMAIN cases' /\ n > 0
  BY <1>2, Lengths, Appended DEF IInv, CasesOK
<1>7. CaseOK(n)' /\ ChainOK(n)' /\ OfferOK(n)'
  BY <1>1, <1>2, <1>5, <1>6, Lengths DEF CaseOK, ChainOK, OfferOK, Stored
<1>8. CASE w.pauseNow = TRUE
  <2>1. op'[o] = [at |-> "propagating", kind |-> "paused", cause |-> n, left |-> c.affected]
    BY <1>3, <1>4, <1>5, <1>8
  <2>2. n \in Owing' /\ Decided(n, "paused")'
    BY <1>5, <1>6, <1>8 DEF Owing, Decided
  <2>3. "paused" \in EventKinds /\ op[o].at # "propagating"
    BY <1>2 DEF EventKinds
  <2> QED BY <1>1, <1>2, <1>3, <1>7, <2>1, <2>2, <2>3, DecisionStored
<1>9. CASE w.pauseNow = FALSE
  <2>1. op'[o] = Idle
    BY <1>3, <1>9
  <2>2. n \notin Owing'
    BY <1>5, <1>6, <1>9 DEF Owing
  <2>3. "paused" \in EventKinds /\ op[o].at # "propagating"
    BY <1>2 DEF EventKinds
  <2> QED BY <1>1, <1>2, <1>3, <1>7, <2>1, <2>2, <2>3, DecisionStored
<1> QED BY <1>4, <1>8, <1>9

\* The event of a repair action is one that means this action.
LEMMA PropagationKinds ==
    ASSUME NEW action \in RepairActions
    PROVE  PropagationKind(action) \in EventKinds /\ action \in Meaning[PropagationKind(action)]
BY DEF RepairActions, PropagationKind, EventKinds, Meaning

\* The transaction of apply_repair() closes a case and begins to tell its closure.
LEMMA ApplyRepairKeeps ==
    ASSUME IInv, NEW o \in Operators, ApplyRepair(o)
    PROVE  IInv'
<1> PICK n : n = Len(cases) + 1
  OBVIOUS
<1> PICK w : w = op[o]
  OBVIOUS
<1> PICK p : p = cases[w.case]
  OBVIOUS
<1> DEFINE repair == IF ~w.plan.feasible THEN "impossible"
                     ELSE IF w.plan.limited \/ w.action = "delete"
                     THEN "partially_applied" ELSE "applied"
           pause == PauseAfter(w.action, p.pause, w.plan.feasible)
           c == [p EXCEPT !.appeal = "closed", !.pause = pause, !.repair = repair,
                          !.affected = w.closure, !.by = w.by, !.prior = w.case,
                          !.reuse = w.reuse, !.seen = w.seen]
           members == IF w.plan.feasible THEN w.closure ELSE {}
           kind == PropagationKind(w.action)
           next == IF members = {} THEN Idle
                   ELSE [at |-> "propagating", kind |-> kind, cause |-> n, left |-> members]
<1>1. n \in Nat /\ Len(Append(cases, c)) = n
  BY Lengths, Appended DEF IInv, CasesOK
<1>2. /\ w.at = "repairing" /\ cases' = Append(cases, c) /\ op' = [op EXCEPT ![o] = next]
      /\ UNCHANGED <<parents, log, abandoned>>
  BY <1>1 DEF ApplyRepair, StoreCase, Propagate, ToTell
<1>3. OnlyOf(o) /\ op'[o] = next
  BY <1>2, Sets
<1>4. /\ w \in [at : {"repairing"}, case : Nat \ {0}, action : RepairActions, by : Authorities,
                 plan : [feasible : BOOLEAN, limited : BOOLEAN], closure : SUBSET Objects,
                 reuse : BOOLEAN, seen : Nat]
      /\ w.case \in DOMAIN cases /\ w.by \in Named /\ Repairable(p, w.action)
      /\ p.root \in w.closure /\ w.seen <= Len(log)
      /\ (w.reuse => HonestOffer(p.root, w.seen, w.action))
  BY <1>2 DEF IInv, OperatorsOK, WorkOK, Work
<1>5. CaseOK(w.case) /\ ChainOK(w.case) /\ p \in Case /\ p.root \in Stored
  BY <1>4 DEF IInv, CasesOK, CaseOK
<1>6. p.appeal = "adjudicated" /\ p.outcome \in {"upheld", "partial"} /\ p.action = w.action
  BY <1>4 DEF Repairable, Favourable
<1>7. /\ repair \in {"applied", "partially_applied", "impossible"}
      /\ pause \in {"active", "denied", "released"}
      /\ w.plan.feasible = FALSE => repair = "impossible" /\ pause = p.pause
      /\ w.plan.feasible = TRUE => repair # "impossible"
      /\ w.plan.feasible \in BOOLEAN
  <2>1. w.plan.feasible \in BOOLEAN /\ p.pause \in {"active", "denied", "released"}
    BY <1>4, <1>5 DEF Case
  <2>2. CASE w.plan.feasible = FALSE
    BY <2>1, <2>2 DEF PauseAfter
  <2>3. CASE w.plan.feasible = TRUE
    <3>1. repair \in {"applied", "partially_applied"}
      BY <2>3
    <3>2. pause \in {"active", "denied", "released"}
      BY <2>1, <2>3 DEF PauseAfter
    <3> QED BY <2>1, <2>3, <3>1, <3>2
  <2> QED BY <2>1, <2>2, <2>3
<1> HIDE DEF repair, pause
<1>8. /\ c \in Case /\ c.root = p.root /\ c.action = p.action /\ c.affected = w.closure
      /\ c.by = w.by /\ c.prior = w.case /\ c.reuse = w.reuse /\ c.seen = w.seen
      /\ c.appeal = "closed" /\ c.repair = repair /\ c.pause = pause /\ c.outcome = p.outcome
  <2>1. /\ w.closure \in SUBSET Objects /\ w.by \in Authorities /\ w.case \in Nat
        /\ w.reuse \in BOOLEAN /\ w.seen \in Nat
    BY <1>4
  <2> DEFINE d == [p EXCEPT !.appeal = "closed", !.pause = pause, !.repair = repair,
                            !.affected = w.closure]
  <2>2. d \in Case
    <3>1. p \in Case /\ w.closure \in SUBSET Objects
          /\ repair \in {"not_requested", "applied", "partially_applied", "impossible"}
          /\ pause \in {"active", "denied", "released"}
      BY <1>5, <1>7, <2>1
    <3>2. [p EXCEPT !.appeal = "closed", !.affected = w.closure] \in Case
      BY <3>1 DEF Case
    <3>3. PICK e \in Case : e = [p EXCEPT !.appeal = "closed", !.affected = w.closure]
      BY <3>2
    <3>4. [e EXCEPT !.pause = pause, !.repair = repair] \in Case
      BY <3>1 DEF Case
    <3>5. d = [e EXCEPT !.pause = pause, !.repair = repair]
      BY <3>1, <3>3 DEF Case
    <3> QED BY <3>4, <3>5
  <2>3. /\ d.root = p.root /\ d.action = p.action /\ d.affected = w.closure /\ d.appeal = "closed"
        /\ d.repair = repair /\ d.pause = pause /\ d.outcome = p.outcome
    BY <1>5 DEF Case
  <2>4. c = [d EXCEPT !.by = w.by, !.prior = w.case, !.reuse = w.reuse, !.seen = w.seen]
    OBVIOUS
  <2> HIDE DEF d, c
  <2>5. c \in Case
    BY <2>1, <2>2, <2>4 DEF Case
  <2> QED BY <2>2, <2>3, <2>4, <2>5 DEF Case
<1> HIDE DEF c
<1>9. /\ cases'[n] = c /\ cases'[w.case] = p /\ n \in DOMAIN cases' /\ w.case \in Nat
      /\ w.case < n /\ w.case # 0
  BY <1>2, <1>4, Lengths, Appended DEF IInv, CasesOK
<1>10. CaseOK(n)'
  BY <1>1, <1>2, <1>4, <1>5, <1>8, <1>9, Lengths DEF CaseOK, Stored
<1>11. ChainOK(n)'
  BY <1>4, <1>6, <1>7, <1>8, <1>9 DEF ChainOK
<1>12. OfferOK(n)'
  <2>1. w.reuse => HonestOffer(p.root, w.seen, w.action)'
    BY <1>2, <1>4 DEF HonestOffer, Standing
  <2> QED BY <1>6, <1>8, <1>9, <2>1 DEF OfferOK
<1>13. kind \in EventKinds /\ w.action \in Meaning[kind]
  BY <1>4, PropagationKinds
<1> HIDE DEF kind
<1>14. CASE w.plan.feasible = TRUE
  <2>1. op'[o] = [at |-> "propagating", kind |-> kind, cause |-> n, left |-> c.affected]
    BY <1>3, <1>4, <1>8, <1>14
  <2>2. n \in Owing' /\ Decided(n, kind)'
    BY <1>6, <1>7, <1>8, <1>9, <1>13, <1>14 DEF Owing, Decided
  <2> QED BY <1>1, <1>2, <1>3, <1>10, <1>11, <1>12, <1>13, <2>1, <2>2, DecisionStored
<1>15. CASE w.plan.feasible = FALSE
  <2>1. op'[o] = Idle
    BY <1>3, <1>15
  <2>2. n \notin Owing'
    BY <1>7, <1>8, <1>9, <1>15 DEF Owing
  <2> QED BY <1>1, <1>2, <1>3, <1>10, <1>11, <1>12, <1>13, <2>1, <2>2, DecisionStored
<1> QED BY <1>7, <1>14, <1>15

-----------------------------------------------------------------------------
(* The step that stores an event *)

\* One member of the closure is told, once.
LEMMA TellKeeps ==
    ASSUME IInv, NEW o \in Operators, NEW member \in Objects, Tell(o, member)
    PROVE  IInv'
<1> PICK w : w = op[o]
  OBVIOUS
<1> PICK n : n = Len(log) + 1
  OBVIOUS
<1> DEFINE e == [kind |-> w.kind, subject |-> member, cause |-> w.cause]
           rest == w.left \ {member}
           next == IF rest = {} THEN Idle
                   ELSE [at |-> "propagating", kind |-> w.kind, cause |-> w.cause, left |-> rest]
<1>1. /\ w.at = "propagating" /\ member \in w.left /\ log' = Append(log, e)
      /\ op' = [op EXCEPT ![o] = next] /\ UNCHANGED <<parents, cases, abandoned>>
  BY DEF Tell, Propagate
<1>2. OnlyOf(o) /\ op'[o] = next
  BY <1>1, Sets
<1>3. /\ w \in [at : {"propagating"}, kind : EventKinds, cause : Nat \ {0}, left : SUBSET Objects]
      /\ w.cause \in Owing /\ Decided(w.cause, w.kind)
      /\ w.left = cases[w.cause].affected \ Told(w.cause)
  BY <1>1 DEF IInv, OperatorsOK, WorkOK, Work
<1>4. /\ Sequence(log') /\ DOMAIN log = 1 .. Len(log) /\ DOMAIN log' = 1 .. n /\ log'[n] = e
      /\ n \notin DOMAIN log
      /\ \A j \in DOMAIN log' : j \in DOMAIN log \/ j = n
      /\ \A j \in DOMAIN log : j \in DOMAIN log' /\ log'[j] = log[j]
  <2>1. n \notin DOMAIN log /\ \A j \in 1 .. n : j \in DOMAIN log \/ j = n
    BY Lengths
  <2> QED BY <1>1, <2>1, Appended DEF IInv, EventsOK
<1>5. n \in DOMAIN log'
  BY <1>4, Lengths
<1>6. Kept
  BY <1>1, <1>4, Grown DEF IInv, CasesOK, Kept, Grows, Stored
<1>7. e \in LogEntry /\ e.kind = w.kind /\ e.subject = member /\ e.cause = w.cause
  BY <1>3 DEF LogEntry
<1> HIDE DEF e
<1>8. \A i : i # w.cause => Told(i)' = Told(i)
  BY <1>4, <1>7 DEF Told
<1>9. Told(w.cause)' = Told(w.cause) \cup {member}
  BY <1>4, <1>5, <1>7 DEF Told
<1>10. \A p \in Operators \ {o} : op[p].at = "propagating" => op[p].cause # w.cause
  BY <1>1 DEF IInv, OperatorsOK, OneTeller
<1>11. LineageOK'
  BY <1>1 DEF IInv, LineageOK, Stored
<1>12. CasesOK'
  BY <1>1, <1>6, OldCase DEF CasesOK, Kept, Grows
<1>13. EventsOK'
  <2>1. ToldOnce'
    <3>1. \A j \in DOMAIN log : ~(log[j].cause = w.cause /\ log[j].subject = member)
      BY <1>1, <1>3 DEF Told
    <3> QED BY <1>4, <1>7, <3>1 DEF IInv, EventsOK, ToldOnce
  <2>2. EventOK(n)'
    <3>1. Decided(w.cause, w.kind)'
      BY <1>1, <1>3 DEF Decided
    <3> QED BY <1>1, <1>3, <1>4, <1>7, <3>1 DEF EventOK, Owing
  <2>3. \A j \in DOMAIN log : EventOK(j)'
    BY <1>6, OldEvent
  <2> QED BY <1>4, <2>1, <2>2, <2>3 DEF EventsOK
<1>14. OperatorsOK'
  <2>1. \A p \in Operators \ {o} : WorkOK(p)'
    BY <1>1, <1>2, <1>6, <1>8, <1>10, OtherWork DEF OnlyOf
  <2>2. CASE rest = {}
    <3>1. WorkOK(o)' /\ op'[o].at # "propagating"
      BY <1>2, <2>2 DEF WorkOK, Idle, Work
    <3>2. OneTeller'
      BY <3>1, <1>2 DEF IInv, OperatorsOK, OneTeller, OnlyOf
    <3> QED BY <1>2, <2>1, <3>1, <3>2 DEF OperatorsOK, OnlyOf
  <2>3. CASE rest # {}
    <3> PICK v : v = op'[o]
      OBVIOUS
    <3>1. /\ v.at = "propagating" /\ v.kind = w.kind /\ v.cause = w.cause /\ v.left = rest
          /\ v \in Work
      BY <1>2, <1>3, <2>3 DEF Work
    <3>2. WorkOK(o)'
      <4>1. w.cause \in Owing' /\ Decided(w.cause, w.kind)'
        BY <1>1, <1>3 DEF Decided, Owing
      <4>2. rest = (cases[w.cause].affected \ Told(w.cause))'
        BY <1>1, <1>3, <1>9
      <4> QED BY <2>3, <3>1, <4>1, <4>2 DEF WorkOK
    <3>3. OneTeller'
      BY <1>2, <1>10, <3>1 DEF IInv, OperatorsOK, OneTeller, OnlyOf
    <3> QED BY <1>2, <2>1, <3>2, <3>3 DEF OperatorsOK, OnlyOf
  <2> QED BY <2>2, <2>3
<1>15. ReachOK'
  <2>1. Owing' = Owing
    BY <1>1 DEF Owing
  <2>2. Reached(w.cause)'
    <3>1. CASE rest = {}
      <4>1. Told(w.cause) \subseteq cases[w.cause].affected /\ member \in cases[w.cause].affected
        BY <1>1, <1>3 DEF IInv, EventsOK, EventOK, Told
      <4>2. Told(w.cause)' = cases[w.cause].affected
        BY <1>3, <1>9, <3>1, <4>1
      <4> QED BY <1>1, <4>2 DEF Reached
    <3>2. CASE rest # {}
      BY <1>2, <3>2 DEF Reached
    <3> QED BY <3>1, <3>2
  <2>3. ASSUME NEW i \in Owing, i # w.cause PROVE Reached(i)'
    <3>1. Reached(i) /\ Told(i)' = Told(i) /\ cases'[i] = cases[i]
      BY <1>1, <1>8, <2>3 DEF IInv, ReachOK
    <3>2. ASSUME NEW p \in Operators, op[p].at = "propagating", op[p].cause = i
          PROVE  Reached(i)'
      <4>1. op'[p] = op[p]
        BY <1>2, <2>3, <3>2 DEF OnlyOf
      <4> QED BY <3>2, <4>1 DEF Reached
    <3>3. CASE Told(i) = cases[i].affected \/ i \in abandoned
      BY <1>1, <3>1, <3>3 DEF Reached
    <3> QED BY <3>1, <3>2, <3>3 DEF Reached
  <2> QED BY <1>1, <2>1, <2>2, <2>3 DEF IInv, ReachOK
<1> QED BY <1>11, <1>12, <1>13, <1>14, <1>15 DEF IInv

-----------------------------------------------------------------------------
(* The theorems *)

\* With no case, no event and idle operators all parts hold.
LEMMA InitHolds == Init => IInv
<1> SUFFICES ASSUME Init PROVE IInv
  OBVIOUS
<1>1. LineageOK
  BY GovernanceAssumption DEF Init, LineageOK, Stored
<1>2. CasesOK /\ EventsOK
  BY EmptySequence DEF Init, CasesOK, EventsOK, ToldOnce
<1>3. OperatorsOK
  <2>1. DOMAIN op = Operators /\ \A o \in Operators : op[o] = Idle
    BY DEF Init
  <2>2. \A o \in Operators : WorkOK(o) /\ op[o].at = "idle"
    BY <2>1, IdleOK
  <2> QED BY <2>1, <2>2 DEF OperatorsOK, OneTeller
<1>4. ReachOK
  BY EmptySequence DEF Init, ReachOK, Owing
<1> QED BY <1>1, <1>2, <1>3, <1>4 DEF IInv

\* A step of something else leaves every part as it is.
LEMMA Same ==
    ASSUME IInv, UNCHANGED vars
    PROVE  IInv'
<1>1. LineageOK'
  BY DEF IInv, LineageOK, Stored, vars
<1>2. CasesOK' /\ EventsOK'
  <2>1. Kept
    BY Grown DEF IInv, CasesOK, EventsOK, Kept, Grows, Stored, vars
  <2> QED BY <2>1, OldCase, OldEvent DEF IInv, CasesOK, EventsOK, ToldOnce, vars
<1>3. \A i : Told(i)' = Told(i)
  BY DEF Told, vars
<1>4. OperatorsOK'
  <2>1. Kept
    BY Grown DEF IInv, CasesOK, EventsOK, Kept, Grows, Stored, vars
  <2> QED BY <2>1, <1>3, OtherWork DEF IInv, OperatorsOK, OneTeller, vars
<1>5. ReachOK'
  BY <1>3 DEF IInv, ReachOK, Reached, Owing, vars
<1> QED BY <1>1, <1>2, <1>4, <1>5 DEF IInv

\* Every operation keeps the invariant.
LEMMA Step == IInv /\ [Next]_vars => IInv'
<1> SUFFICES ASSUME IInv, [Next]_vars PROVE IInv'
  OBVIOUS
<1>1. CASE UNCHANGED vars
  BY <1>1, Same
<1>2. ASSUME NEW o \in Governors, Govern(o) PROVE IInv'
  <2>1. o \in Operators
    BY DEF Operators
  <2>2. CASE \E root \in Objects, action \in Requests, by \in Authorities, pauseNow \in BOOLEAN :
               ReadForAppeal(o, root, action, by, pauseNow)
    BY <2>1, <2>2, ReadForAppealKeeps
  <2>3. CASE OpenAppeal(o)
    BY <2>1, <2>3, OpenAppealKeeps
  <2>4. CASE \E i \in DOMAIN cases, action \in Requests, by \in Authorities, plan \in Plans :
               ReadForRepair(o, i, action, by, plan)
    BY <2>1, <2>4, ReadForRepairKeeps
  <2>5. CASE ApplyRepair(o)
    BY <2>1, <2>5, ApplyRepairKeeps
  <2>6. CASE \E member \in Objects : Tell(o, member)
    BY <2>1, <2>6, TellKeeps
  <2> QED BY <1>2, <2>2, <2>3, <2>4, <2>5, <2>6 DEF Govern
<1>3. ASSUME NEW o \in Users, UseObject(o) PROVE IInv'
  <2>1. o \in Operators
    BY DEF Operators
  <2> QED BY <1>3, <2>1, CheckExportKeeps, ExportKeeps, BeginTransduceKeeps, CheckSourceKeeps,
             TransduceKeeps DEF UseObject
<1>4. ASSUME NEW o \in Operators, Stop(o) PROVE IInv'
  BY <1>4, StopKeeps
<1>5. ASSUME NEW i \in DOMAIN cases, NEW by \in Authorities, NEW outcome \in Outcomes,
             Adjudicate(i, by, outcome)
      PROVE  IInv'
  BY <1>5, AdjudicateKeeps
<1> QED BY <1>1, <1>2, <1>3, <1>4, <1>5 DEF Next

\* Governance.IInv: what every case, event and process keeps true of the others,
\* in every reachable state.
THEOREM Invariant == Spec => []IInv
BY InitHolds, Step, PTL DEF Spec

\* Governance.TypeOK: records, events and the work in hand keep their shape.
THEOREM GovernanceTypes == Spec => []TypeOK
<1>1. IInv => TypeOK
  BY DEF IInv, LineageOK, CasesOK, CaseOK, EventsOK, EventOK, OperatorsOK, WorkOK, ReachOK, TypeOK
<1> QED BY <1>1, Invariant, PTL

\* Governance.CaseChains: processes that adjudicate and repair one appeal at the
\* same time never store a case out of order, or on an outcome or with an action
\* that its predecessor does not have.
THEOREM ChainsHold == Spec => []CaseChains
<1>1. IInv => CaseChains
  BY DEF IInv, CasesOK, ChainOK, CaseChains
<1> QED BY <1>1, Invariant, PTL

\* Governance.EventsExplained: however the operations interleave and stop, an
\* event that authorization is read from names the decision that called for it.
THEOREM EventsAreExplained == Spec => []EventsExplained
<1>1. IInv => EventsExplained
  BY DEF IInv, EventsOK, EventOK, Decided, EventsExplained
<1> QED BY <1>1, Invariant, PTL

\* Governance.PropagationComplete: a decision told member by member reaches its
\* whole closure, and nobody twice, unless its process is at it or was stopped.
THEOREM PropagationCompletes == Spec => []PropagationComplete
<1>1. ASSUME IInv PROVE PropagationComplete
  <2> SUFFICES ASSUME NEW i \in Owing
               PROVE  /\ cases[i].root \in cases[i].affected
                      /\ \A j, k \in DOMAIN log :
                           log[j].cause = i /\ log[k].cause = i /\ log[j].subject = log[k].subject
                             => j = k
                      /\ \/ Told(i) = cases[i].affected
                         \/ i \in abandoned
                         \/ \E o \in Operators :
                              /\ op[o].at = "propagating"
                              /\ op[o].cause = i
                              /\ op[o].left = cases[i].affected \ Told(i)
    BY DEF PropagationComplete
  <2>1. cases[i].root \in cases[i].affected
    BY <1>1 DEF IInv, CasesOK, CaseOK, Owing
  <2>2. \A j, k \in DOMAIN log :
           log[j].cause = i /\ log[k].cause = i /\ log[j].subject = log[k].subject => j = k
    BY <1>1 DEF IInv, EventsOK, ToldOnce
  <2>3. Reached(i)
    BY <1>1 DEF IInv, ReachOK
  <2>4. \A o \in Operators : op[o].at = "propagating" /\ op[o].cause = i
                               => op[o].left = cases[i].affected \ Told(i)
    BY <1>1 DEF IInv, OperatorsOK, WorkOK
  <2> QED BY <2>1, <2>2, <2>3, <2>4 DEF Reached
<1>2. IInv => PropagationComplete
  BY <1>1
<1> QED BY <1>2, Invariant, PTL

\* Governance.SuccessorHonest: a repair computed from the events it read offers
\* reuse only when nothing among them stands against the object on either axis,
\* whatever was decided and told between the reading and the writing.
THEOREM SuccessorsAreHonest == Spec => []SuccessorHonest
<1>1. IInv => SuccessorHonest
  BY DEF IInv, CasesOK, OfferOK, HonestOffer, Standing, SuccessorHonest
<1> QED BY <1>1, Invariant, PTL

\* Governance.NeverClearedWhileBlocked: both readings of the log, the latest event
\* for an export and the first one for a transduction, refuse a source that was
\* revoked or paused before the operation began and not lifted since.
THEOREM BlockedIsNotCleared == Spec => []NeverClearedWhileBlocked
<1>1. IInv => NeverClearedWhileBlocked
  <2> SUFFICES ASSUME IInv, NEW o \in Operators,
                      op[o].at = "exporting" \/ (op[o].at = "checking" /\ op[o].left = {}),
                      NEW x \in op[o].sources
               PROVE  Cleared(x, op[o].started)
    BY DEF NeverClearedWhileBlocked, Cleared
  <2>1. WorkOK(o)
    BY DEF IInv, OperatorsOK
  <2> QED BY <2>1 DEF WorkOK
<1> QED BY <1>1, Invariant, PTL

=============================================================================
