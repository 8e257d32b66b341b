----------------------------- MODULE Governance -----------------------------
(***************************************************************************)
(* Appeals, repairs and the uses they govern: policy/service.py and        *)
(* transduction/service.py over one shared workspace.                      *)
(*                                                                         *)
(* Nothing here is updated in place.  A case, its adjudication and its     *)
(* repair are three immutable records, each naming the one before it; who  *)
(* may use an object is a fold over the event log.  Every operation reads  *)
(* the workspace first and writes one transaction later, so other          *)
(* processes write in between; a repair then tells the members of its      *)
(* closure one transaction at a time, and its process may stop anywhere.   *)
(*                                                                         *)
(* Objects are the records that can be exported or transduced.  Lineage    *)
(* that runs through paperwork (receipts, decisions, boundaries) is an     *)
(* edge between objects here.  Events on paperwork, and the receipts and   *)
(* events of refused or failed calls, are left out: no reader of           *)
(* authorization looks at them.                                            *)
(***************************************************************************)
EXTENDS Naturals, Sequences, FiniteSets

CONSTANTS
    Objects,      \* governed records
    Originals,    \* the objects stored before any operation, each with the
                  \* objects it derives from
    Governors,    \* processes that appeal and repair
    Users,        \* processes that export and transduce
    Authorities,  \* authorities a caller may name
    Named,        \* the authorities of the governance boundary
    Requests,     \* the repair actions callers ask for
    Permitted,    \* permitted_actions of the boundary
    Outcomes,     \* the adjudication outcomes callers give
    Plans,        \* what callers say of a repair: is it feasible, is it limited
                  \* by retention duties, external copies or earlier failures
    MaxCases      \* bound: case records stored in a behaviour

RepairActions ==
    {"pause", "correct", "revoke", "delete", "restrict", "restore", "release_pause"}

ASSUME GovernanceAssumption ==
    /\ \A x \in DOMAIN Originals : x \in Objects /\ Originals[x] \subseteq DOMAIN Originals
    /\ Named \subseteq Authorities
    /\ Requests \subseteq RepairActions
    /\ Outcomes \subseteq {"upheld", "denied", "partial", "escalated", "withdrawn"}
    /\ Plans \subseteq [feasible : BOOLEAN, limited : BOOLEAN]
    /\ MaxCases \in Nat

VARIABLES
    parents,    \* lineage: the stored objects, each with what it derives from
    log,        \* the events that authorization is read from
    cases,      \* AppealCase records in the order they were stored
    op,         \* what each operator's process is doing
    abandoned   \* history: cases whose process stopped while propagating

vars == <<parents, log, cases, op, abandoned>>

Operators == Governors \cup Users

Stored == DOMAIN parents

EventKinds == {"revoked", "restored", "paused", "released", "invalidated"}
LogEntry == [kind : EventKinds, subject : Objects, cause : Nat \ {0}]

-----------------------------------------------------------------------------
(* Reading the event log *)

Entries(kinds, subject) ==
    {i \in DOMAIN log : log[i].kind \in kinds /\ log[i].subject = subject}

\* The kind of the latest / earliest entry, or "none".
Latest(kinds, subject) ==
    LET found == Entries(kinds, subject)
    IN  IF found = {} THEN "none"
        ELSE log[CHOOSE i \in found : \A j \in found : j <= i].kind

Earliest(kinds, subject) ==
    LET found == Entries(kinds, subject)
    IN  IF found = {} THEN "none"
        ELSE log[CHOOSE i \in found : \A j \in found : i <= j].kind

\* One status for both axes: whichever event came last decides.
CurrentAuthorization(target) ==
    LET last == Latest({"revoked", "restored", "paused", "released"}, target)
    IN  CASE last = "revoked" -> "revoked"
          [] last = "paused"  -> "refused"
          [] OTHER            -> "permitted"

\* Mutant: a use looks for revocations only.
IsRevoked(target) == Earliest(EventKinds \ {"paused", "released"}, target) = "revoked"

\* The scan returns at the first event it recognises.
IsBlocked(target) == Earliest(EventKinds, target) \in {"revoked", "paused", "invalidated"}

\* _current_policy_state: the two axes, kept apart.
PolicyState(target) ==
    [authorization |-> IF Latest({"revoked", "restored"}, target) = "revoked"
                       THEN "revoked" ELSE "permitted",
     pause |-> LET last == Latest({"paused", "released"}, target)
               IN  CASE last = "paused"   -> "active"
                     [] last = "released" -> "released"
                     [] OTHER             -> "not_requested",
     corrected |-> FALSE]

Executable(state) == state.authorization = "permitted" /\ state.pause # "active"

ChangedState(action, before) ==
    CASE action = "revoke"              -> [before EXCEPT !.authorization = "revoked"]
      [] action = "restore"             -> [before EXCEPT !.authorization = "permitted"]
      [] action \in {"pause", "restrict"} -> [before EXCEPT !.pause = "active"]
      [] action = "release_pause"       -> [before EXCEPT !.pause = "released"]
      [] action = "correct"             -> [before EXCEPT !.corrected = TRUE]
      [] OTHER                          -> before

\* Mutant: a correction is taken to clear whatever stood against the object.
OffersByAction(action, before) == action \in {"restore", "release_pause", "correct"}

\* Whether the successor's action set offers reuse rather than only an appeal.
OffersReuse(action, before) ==
    /\ \/ action \in {"restore", "release_pause"}
       \/ action = "correct" /\ Executable(before)
    /\ Executable(ChangedState(action, before))

\* The semantic difference a successor specification must show.
BehaviourChanges(action, before) ==
    \/ ChangedState(action, before) # before
    \/ OffersReuse(action, before) # Executable(before)

\* Descendants of root, root included.
Closure(root) ==
    {x \in Stored : \A s \in SUBSET Stored :
        (root \in s /\ \A y \in Stored : parents[y] \cap s # {} => y \in s) => x \in s}

-----------------------------------------------------------------------------
(* The cases *)

Case == [root : Objects, action : RepairActions, appeal : {"under_review", "adjudicated", "closed"},
         pause : {"active", "denied", "released"},
         outcome : {"not_decided"} \cup Outcomes,
         repair : {"not_requested", "applied", "partially_applied", "impossible"},
         affected : SUBSET Objects,  \* closure the record carries
         by : Authorities,
         prior : Nat,                \* predecessor case, 0 for none
         reuse : BOOLEAN,            \* the successor offers reuse
         seen : Nat]                 \* history: log length when it was read

Favourable(c) == c.outcome \in {"upheld", "partial"}

\* Mutant: any decision, not only a favourable one, makes a case repairable.
DecidedRepairable(c, action) == c.appeal = "adjudicated" /\ action = c.action

Repairable(c, action) ==
    c.appeal = "adjudicated" /\ Favourable(c) /\ action = c.action

\* Mutant: a correction is propagated as if it were a revocation.
RevokingKind(action) ==
    CASE action \in {"pause", "restrict"}            -> "paused"
      [] action \in {"correct", "delete", "revoke"}  -> "revoked"
      [] action = "restore"                          -> "restored"
      [] action = "release_pause"                    -> "released"

PropagationKind(action) ==
    CASE action \in {"pause", "restrict"}   -> "paused"
      [] action \in {"correct", "delete"}   -> "invalidated"
      [] action = "revoke"                  -> "revoked"
      [] action = "restore"                 -> "restored"
      [] action = "release_pause"           -> "released"

\* Mutant: a repair that cannot be made resets the pause axis.
PauseReset(action, prior, feasible) ==
    IF ~feasible THEN "not_requested"
    ELSE CASE action = "pause"         -> "active"
           [] action = "release_pause" -> "released"
           [] OTHER                    -> prior

PauseAfter(action, prior, feasible) ==
    IF ~feasible THEN prior
    ELSE CASE action = "pause"         -> "active"
           [] action = "release_pause" -> "released"
           [] OTHER                    -> prior

Idle == [at |-> "idle"]

Begin(o, work) == op[o] = Idle /\ op' = [op EXCEPT ![o] = work]

StoreCase(c) == Len(cases) < MaxCases /\ cases' = Append(cases, c)

\* Mutant: the member the operation was asked about is taken as told already.
OthersOnly(members, root) == members \ {root}

\* Who has to be told: every member, the root among them.
ToTell(members, root) == members

\* After its transaction an operation tells the members, or is done.
Propagate(o, kind, cause, members) ==
    op' = [op EXCEPT ![o] =
             IF members = {} THEN Idle
             ELSE [at |-> "propagating", kind |-> kind, cause |-> cause, left |-> members]]

\* open_appeal: checks and closure first ...
ReadForAppeal(o, root, action, by, pauseNow) ==
    /\ "appeal" \in Permitted
    /\ by \in Named
    /\ root \in Stored
    /\ Begin(o, [at |-> "opening", root |-> root, action |-> action, by |-> by,
                 pauseNow |-> pauseNow, closure |-> Closure(root)])
    /\ UNCHANGED <<parents, log, cases, abandoned>>

\* ... then the case, its pause decision and the event, in one transaction.
OpenAppeal(o) ==
    /\ op[o].at = "opening"
    /\ LET w == op[o]
       IN  /\ StoreCase([root |-> w.root, action |-> w.action, appeal |-> "under_review",
                         pause |-> IF w.pauseNow THEN "active" ELSE "denied",
                         outcome |-> "not_decided", repair |-> "not_requested",
                         affected |-> w.closure, by |-> w.by, prior |-> 0,
                         reuse |-> FALSE, seen |-> 0])
           /\ Propagate(o, "paused", Len(cases'),
                        IF w.pauseNow THEN ToTell(w.closure, w.root) ELSE {})
    /\ UNCHANGED <<parents, log, abandoned>>

\* adjudicate: all its checks read the immutable case it was given, so reading
\* and writing are one step whatever happens in between.
Adjudicate(i, by, outcome) ==
    /\ "adjudicate" \in Permitted
    /\ by \in Named
    /\ cases[i].appeal = "under_review"
    /\ cases[i].outcome = "not_decided"
    /\ StoreCase([cases[i] EXCEPT !.appeal = "adjudicated", !.outcome = outcome,
                                  !.by = by, !.prior = i])
    /\ UNCHANGED <<parents, log, op, abandoned>>

\* apply_repair: the checks, the closure as it is now, and the policy state
\* that the successor specification is computed from.  A feasible repair that
\* would change nothing is rejected.
ReadForRepair(o, i, action, by, plan) ==
    /\ by \in Named
    /\ action \in Permitted
    /\ Repairable(cases[i], action)
    /\ LET before == PolicyState(cases[i].root)
       IN  /\ plan.feasible /\ action # "delete" => BehaviourChanges(action, before)
           /\ Begin(o, [at |-> "repairing", case |-> i, action |-> action, by |-> by,
                        plan |-> plan, closure |-> Closure(cases[i].root),
                        reuse |-> /\ plan.feasible
                                  /\ action # "delete"
                                  /\ OffersReuse(action, before),
                        seen |-> Len(log)])
    /\ UNCHANGED <<parents, log, cases, abandoned>>

ApplyRepair(o) ==
    /\ op[o].at = "repairing"
    /\ LET w == op[o]
           c == cases[w.case]
       IN  /\ StoreCase([c EXCEPT
                 !.appeal = "closed",
                 !.pause = PauseAfter(w.action, c.pause, w.plan.feasible),
                 !.repair = IF ~w.plan.feasible THEN "impossible"
                            ELSE IF w.plan.limited \/ w.action = "delete"
                            THEN "partially_applied" ELSE "applied",
                 !.affected = w.closure, !.by = w.by, !.prior = w.case,
                 !.reuse = w.reuse, !.seen = w.seen])
           /\ Propagate(o, PropagationKind(w.action), Len(cases'),
                        IF w.plan.feasible THEN ToTell(w.closure, c.root) ELSE {})
    /\ UNCHANGED <<parents, log, abandoned>>

\* _propagate_event: one append_event transaction per member.  Identities are
\* random, so their sorted order is any order.
Tell(o, member) ==
    /\ op[o].at = "propagating"
    /\ member \in op[o].left
    /\ log' = Append(log, [kind |-> op[o].kind, subject |-> member, cause |-> op[o].cause])
    /\ Propagate(o, op[o].kind, op[o].cause, op[o].left \ {member})
    /\ UNCHANGED <<parents, cases, abandoned>>

-----------------------------------------------------------------------------
(* The uses *)

Derive(new, sources) ==
    /\ new \in Objects \ Stored
    /\ parents' = [x \in Stored \cup {new} |-> IF x = new THEN sources ELSE parents[x]]

\* export_projection
CheckExport(o, target) ==
    /\ "export" \in Permitted
    /\ target \in Stored
    /\ CurrentAuthorization(target) \notin {"revoked", "refused"}
    /\ Begin(o, [at |-> "exporting", sources |-> {target}, started |-> Len(log)])
    /\ UNCHANGED <<parents, log, cases, abandoned>>

Export(o, new) ==
    /\ op[o].at = "exporting"
    /\ Derive(new, op[o].sources)
    /\ op' = [op EXCEPT ![o] = Idle]
    /\ UNCHANGED <<log, cases, abandoned>>

\* transduce: the sources are checked one after another ...
BeginTransduce(o, sources) ==
    /\ sources \subseteq Stored
    /\ sources # {}
    /\ Begin(o, [at |-> "checking", sources |-> sources, left |-> sources,
                 started |-> Len(log)])
    /\ UNCHANGED <<parents, log, cases, abandoned>>

CheckSource(o, source) ==
    /\ op[o].at = "checking"
    /\ source \in op[o].left
    /\ op' = [op EXCEPT ![o] = IF IsBlocked(source) THEN Idle
                               ELSE [op[o] EXCEPT !.left = @ \ {source}]]
    /\ UNCHANGED <<parents, log, cases, abandoned>>

\* ... then the output is stored: an artifact or observations that derive from
\* the sources and, but for desonification, from a control and a context that
\* are not checked; a contrast stores no object.
Transduce(o) ==
    /\ op[o].at = "checking"
    /\ op[o].left = {}
    /\ \/ UNCHANGED parents
       \/ \E new \in Objects, others \in SUBSET (Stored \ op[o].sources) :
            Derive(new, op[o].sources \cup others)
    /\ op' = [op EXCEPT ![o] = Idle]
    /\ UNCHANGED <<log, cases, abandoned>>

\* The process is killed, or its call fails before its transaction commits.
Stop(o) ==
    /\ op[o] # Idle
    /\ op' = [op EXCEPT ![o] = Idle]
    /\ abandoned' = IF op[o].at = "propagating" THEN abandoned \cup {op[o].cause} ELSE abandoned
    /\ UNCHANGED <<parents, log, cases>>

-----------------------------------------------------------------------------

Init ==
    /\ parents = Originals
    /\ log = <<>>
    /\ cases = <<>>
    /\ op = [o \in Operators |-> Idle]
    /\ abandoned = {}

Govern(o) ==
    \/ \E root \in Objects, action \in Requests, by \in Authorities, pauseNow \in BOOLEAN :
         ReadForAppeal(o, root, action, by, pauseNow)
    \/ OpenAppeal(o)
    \/ \E i \in DOMAIN cases, action \in Requests, by \in Authorities,
          plan \in Plans :
         ReadForRepair(o, i, action, by, plan)
    \/ ApplyRepair(o)
    \/ \E member \in Objects : Tell(o, member)

UseObject(o) ==
    \/ \E target \in Objects : CheckExport(o, target)
    \/ \E new \in Objects : Export(o, new)
    \/ \E sources \in SUBSET Objects : BeginTransduce(o, sources)
    \/ \E source \in Objects : CheckSource(o, source)
    \/ Transduce(o)

Next ==
    \/ \E o \in Governors : Govern(o)
    \/ \E o \in Users : UseObject(o)
    \/ \E o \in Operators : Stop(o)
    \/ \E i \in DOMAIN cases, by \in Authorities, outcome \in Outcomes : Adjudicate(i, by, outcome)

Telling(o) == \E member \in Objects : Tell(o, member)

\* A process that is not stopped goes on with the loop it is in.
Fairness == \A o \in Governors : WF_vars(Telling(o))

Spec == Init /\ [][Next]_vars /\ Fairness

-----------------------------------------------------------------------------
(* Properties *)

Work ==
    [at : {"idle"}]
    \cup [at : {"opening"}, root : Objects, action : RepairActions, by : Authorities,
          pauseNow : BOOLEAN, closure : SUBSET Objects]
    \cup [at : {"repairing"}, case : Nat \ {0}, action : RepairActions, by : Authorities,
          plan : [feasible : BOOLEAN, limited : BOOLEAN], closure : SUBSET Objects,
          reuse : BOOLEAN, seen : Nat]
    \cup [at : {"propagating"}, kind : EventKinds, cause : Nat \ {0}, left : SUBSET Objects]
    \cup [at : {"exporting"}, sources : SUBSET Objects, started : Nat]
    \cup [at : {"checking"}, sources : SUBSET Objects, left : SUBSET Objects, started : Nat]

\* Type invariant: records, events and the work in hand keep their shape.
TypeOK ==
    /\ Stored \subseteq Objects
    /\ \A x \in Stored : parents[x] \subseteq Stored
    /\ \A i \in DOMAIN log : log[i] \in LogEntry
    /\ \A i \in DOMAIN cases : cases[i] \in Case
    /\ \A o \in Operators : op[o] \in Work
    /\ abandoned \subseteq DOMAIN cases

\* Every case continues one earlier record of its appeal: opened, adjudicated
\* and closed in that order, with the outcome frozen once it is decided, and
\* closed only by a repair that its outcome allows.  Two processes that work
\* on the same appeal cannot close it out of order or on another outcome.
CaseChains ==
    \A i \in DOMAIN cases :
        LET c == cases[i]
            p == cases[c.prior]
        IN  /\ c.by \in Named
            /\ c.prior < i
            /\ c.appeal = "under_review" <=> c.prior = 0
            /\ c.prior # 0 => c.root = p.root /\ c.action = p.action
            /\ c.appeal = "adjudicated" =>
                 p.appeal = "under_review" /\ p.pause = c.pause /\ c.repair = "not_requested"
            /\ c.appeal = "closed" =>
                 /\ p.appeal = "adjudicated" /\ p.outcome = c.outcome
                 /\ c.outcome \in {"upheld", "partial"}
                 /\ c.repair = "impossible" => c.pause = p.pause

\* The requests each kind of event may stand for.
Meaning == [revoked |-> {"revoke"}, restored |-> {"restore"}, paused |-> {"pause", "restrict"},
            released |-> {"release_pause"}, invalidated |-> {"correct", "delete"}]

\* Nothing is blocked or released without a decision behind it: each event
\* that authorization is read from names a case whose closure holds the
\* object, either opened with its pause granted, or closed by a feasible
\* repair of that kind after a favourable adjudication.
EventsExplained ==
    \A i \in DOMAIN log :
        /\ log[i].cause \in DOMAIN cases
        /\ LET c == cases[log[i].cause]
           IN  /\ log[i].subject \in c.affected
               /\ \/ /\ c.appeal = "under_review"
                     /\ c.pause = "active"
                     /\ log[i].kind = "paused"
                  \/ /\ c.appeal = "closed"
                     /\ c.repair # "impossible"
                     /\ cases[c.prior].outcome \in {"upheld", "partial"}
                     /\ cases[c.prior].action \in Meaning[log[i].kind]

\* The cases that owe their closure an event.
Owing == {i \in DOMAIN cases :
            \/ cases[i].appeal = "under_review" /\ cases[i].pause = "active"
            \/ cases[i].appeal = "closed" /\ cases[i].repair # "impossible"}

Told(i) == {m \in Objects : \E j \in DOMAIN log : log[j].cause = i /\ log[j].subject = m}

\* A decision reaches every member of its closure exactly once, unless its
\* process is still at it or was stopped; the contested object is a member.
PropagationComplete ==
    \A i \in Owing :
        /\ cases[i].root \in cases[i].affected
        /\ \A j, k \in DOMAIN log :
             log[j].cause = i /\ log[k].cause = i /\ log[j].subject = log[k].subject => j = k
        /\ \/ Told(i) = cases[i].affected
           \/ i \in abandoned
           \/ \E o \in Operators :
                /\ op[o].at = "propagating"
                /\ op[o].cause = i
                /\ op[o].left = cases[i].affected \ Told(i)

\* A process is never cleared to use a source that was revoked or paused
\* before the operation began and never restored or released since: both
\* readings of the log, the export's and the transduction's, refuse it.
NeverClearedWhileBlocked ==
    \A o \in Operators :
        op[o].at = "exporting" \/ (op[o].at = "checking" /\ op[o].left = {}) =>
            \A x \in op[o].sources :
                \/ \A i \in 1 .. op[o].started :
                     log[i].subject = x => log[i].kind \notin {"revoked", "paused"}
                \/ \E i \in DOMAIN log :
                     log[i].subject = x /\ log[i].kind \in {"restored", "released"}

\* The successor of a repair offers reuse only if nothing else stands against
\* it: restoring a paused object or releasing a revoked one does not, going by
\* the events the repair had read.
SuccessorHonest ==
    \A i \in DOMAIN cases :
        LET c == cases[i]
            Standing(against, lifting) ==
                \E j \in 1 .. c.seen :
                    /\ log[j].subject = c.root
                    /\ log[j].kind = against
                    /\ \A k \in j .. c.seen :
                         log[k].subject = c.root => log[k].kind # lifting
        IN  c.reuse =>
              /\ c.appeal = "closed"
              /\ c.action \notin {"revoke", "pause", "restrict"}
              /\ c.action # "restore" => ~Standing("revoked", "restored")
              /\ c.action # "release_pause" => ~Standing("paused", "released")

\* Every decision that owes events is eventually told to its whole closure,
\* unless its process is stopped on the way.
DecisionsReachAll ==
    \A i \in 1 .. MaxCases :
        i \in Owing ~> /\ i \in DOMAIN cases
                       /\ i \in abandoned \/ Told(i) = cases[i].affected

-----------------------------------------------------------------------------
(* What the documents say and the code does not do *)

\* "Revocation and pause ... block later transduction or export until an
\* authorized successor releases them", and no axis is inferred from another:
\* an object whose revocation was not restored is not permitted.
RevocationHolds ==
    \A x \in Stored :
        Latest({"revoked", "restored"}, x) = "revoked" => CurrentAuthorization(x) # "permitted"

=============================================================================
