------------------------------ MODULE EventReview -----------------------------
(***************************************************************************)
(* Reviewed changes of the event base (src/updates): a candidate that an   *)
(* import or a person brings becomes a pending proposal, which remembers   *)
(* the fingerprint of the event it would change; somebody accepts or       *)
(* rejects it, perhaps long after; and meanwhile the events are edited and *)
(* other proposals are decided.                                            *)
(*                                                                         *)
(* The text of an event stands for everything in it that the review does   *)
(* not look into.  Orders of arrays and keys, which the fingerprint        *)
(* normalises, are not distinguished.  diffEventProposals takes a list of  *)
(* candidates and refuses all if it refuses one: a list is a run of        *)
(* Propose steps with nothing in between.                                  *)
(***************************************************************************)
EXTENDS Naturals

CONSTANTS
  EventIds,
  ProposalIds,
  Texts,
  Sources,
  Hash(_, _),       \* fnv1a of the canonical form of an event with its id
  Candidates,       \* what imports and people bring
  Initial,          \* the event bases a review can begin with
  Edits,            \* what events are set to outside the review
  Absent            \* undefined, no event

ChangeTypes == {"add", "update", "cancel"}
Statuses == {"suggested", "approved", "actual", "cancelled"}
Named == SUBSET Sources \ {{}}
Event == [status : Statuses, text : Texts, sources : Named]
EventBases == [EventIds -> Event \cup {Absent}]
Proposed == [id : EventIds, event : Event]
Proposal ==
  [changeType : STRING, target : EventIds \cup {Absent},
   proposed : Proposed \cup {Absent}, sources : SUBSET Sources,
   expected : {Hash(e, v) : e \in EventIds, v \in Event} \cup {Absent},
   status : {"pending", "accepted", "rejected"}]
AuditEntry ==
  [proposal : ProposalIds, decision : {"accept", "reject"}, event : EventIds,
   before : Event \cup {Absent}, after : Event \cup {Absent}]

ASSUME AbsentAssumption ==
  Absent \notin EventIds \cup Event \cup Proposed \cup Proposal
ASSUME InputsAssumption ==
  /\ Edits \subseteq Event
  /\ Initial \subseteq EventBases
  /\ \A c \in Candidates :
       /\ DOMAIN c = {"changeType", "target", "proposed", "sources"}
       /\ c.changeType \in STRING
       /\ c.target \in EventIds \cup {Absent}
       /\ c.proposed \in Proposed \cup {Absent}
       /\ c.sources \subseteq Sources
\* Fingerprints are 32 bits, so two versions of an event can share one: that
\* the versions in play do not is taken for granted.
ASSUME HashAssumption ==
  \A e \in EventIds : \A v, w \in Event :
    /\ Hash(e, v) # Absent
    /\ Hash(e, v) = Hash(e, w) => v = w

VARIABLES
  events,
  proposals,
  auditTrail,       \* sorted by id, so a set
  \* history
  basis             \* the event each proposal was made from

vars == <<events, proposals, auditTrail, basis>>

\* The event a proposal is about.
Subject(p) == IF p.changeType = "add" THEN p.proposed.id ELSE p.target

TypeOK ==
  /\ events \in EventBases
  /\ proposals \in [ProposalIds -> Proposal \cup {Absent}]
  /\ auditTrail \subseteq AuditEntry
  /\ basis \in [ProposalIds -> Event \cup {Absent}]

Init ==
  /\ events \in Initial
  /\ proposals = [p \in ProposalIds |-> Absent]
  /\ auditTrail = {}
  /\ basis = [p \in ProposalIds |-> Absent]

-----------------------------------------------------------------------------
(* What the two sides validate. *)

\* A mutant: the sources are left out of the fingerprint.
FingerprintOfText(e, v) == Hash(e, [v EXCEPT !.sources = Sources])

EventFingerprint(e, v) == Hash(e, v)

RequireSuggestedEvent(proposed) ==
  /\ proposed # Absent
  /\ proposed.event.status = "suggested"

ValidateProposalSourcesOnEvent(sources, proposed) ==
  sources \subseteq proposed.event.sources

ApprovedEventFromProposal(proposed) ==
  [proposed.event EXCEPT !.status = "approved"]

\* A mutant: the sources are lost.
ToCancelledUnsourced(event) ==
  [event EXCEPT !.status = "cancelled", !.sources = {}]

ToCancelled(event) == [event EXCEPT !.status = "cancelled"]

ValidateProposalForDecision(p) ==
  /\ p.changeType \in ChangeTypes
  /\ p.sources # {}
  /\ \/ /\ p.changeType = "add"
        /\ p.target = Absent /\ p.expected = Absent
        /\ RequireSuggestedEvent(p.proposed)
        /\ ValidateProposalSourcesOnEvent(p.sources, p.proposed)
     \/ /\ p.changeType = "cancel"
        /\ p.target # Absent /\ p.expected # Absent
        /\ p.proposed = Absent
     \/ /\ p.changeType = "update"
        /\ p.target # Absent /\ p.expected # Absent
        /\ RequireSuggestedEvent(p.proposed)
        /\ p.proposed.id = p.target
        /\ ValidateProposalSourcesOnEvent(p.sources, p.proposed)

-----------------------------------------------------------------------------
(* diffEventProposals. *)

\* A mutant: only the decision checks the sources of what it adds.
ValidateAddCandidateUnsourced(c) ==
  /\ c.target = Absent
  /\ RequireSuggestedEvent(c.proposed)
  /\ events[c.proposed.id] = Absent

ValidateAddCandidate(c) ==
  /\ c.target = Absent
  /\ RequireSuggestedEvent(c.proposed)
  /\ ValidateProposalSourcesOnEvent(c.sources, c.proposed)
  /\ events[c.proposed.id] = Absent

RequireApprovedFutureTarget(c) ==
  /\ c.target # Absent
  /\ events[c.target] # Absent
  /\ events[c.target].status = "approved"

\* Any type but add and cancel is taken for an update.  An update that would
\* change nothing makes no proposal.
ValidateUpdateCandidate(c) ==
  /\ RequireApprovedFutureTarget(c)
  /\ RequireSuggestedEvent(c.proposed)
  /\ ValidateProposalSourcesOnEvent(c.sources, c.proposed)
  /\ c.target = c.proposed.id
  /\ EventFingerprint(c.target, ApprovedEventFromProposal(c.proposed))
       # EventFingerprint(c.target, events[c.target])

\* An id that is taken is refused: the candidates of one import are compared,
\* and a review state with an id twice takes no decision.
Propose(p, c) ==
  /\ proposals[p] = Absent
  /\ c.sources # {}
  /\ \/ c.changeType = "add" /\ ValidateAddCandidate(c)
     \/ /\ c.changeType = "cancel"
        /\ RequireApprovedFutureTarget(c)
        /\ c.proposed = Absent
     \/ c.changeType \notin {"add", "cancel"} /\ ValidateUpdateCandidate(c)
  /\ proposals' = [proposals EXCEPT ![p] =
       [changeType |-> c.changeType, target |-> c.target,
        proposed |-> c.proposed, sources |-> c.sources, status |-> "pending",
        expected |-> IF c.changeType = "add" THEN Absent
                     ELSE EventFingerprint(c.target, events[c.target])]]
  /\ basis' = [basis EXCEPT ![p] = events[Subject(c)]]
  /\ UNCHANGED <<events, auditTrail>>

-----------------------------------------------------------------------------
(* applyEventDecision. *)

\* A mutant: the decision is valid whatever the proposal's status.
AwaitsDecisionAgain(p) ==
  proposals[p] # Absent /\ ValidateProposalForDecision(proposals[p])

AwaitsDecision(p) ==
  /\ proposals[p] # Absent
  /\ ValidateProposalForDecision(proposals[p])
  /\ proposals[p].status = "pending"

ValidateTargetFingerprint(p) ==
  /\ EventFingerprint(proposals[p].target, events[proposals[p].target])
       = proposals[p].expected
  /\ events[proposals[p].target].status = "approved"

\* A mutant: the event before is taken from the changed events.
FinalizeStateLate(p, decision, after) ==
  LET e == Subject(proposals[p]) IN
  /\ proposals' = [proposals EXCEPT ![p].status =
                     IF decision = "accept" THEN "accepted" ELSE "rejected"]
  /\ auditTrail' = auditTrail \cup
       {[proposal |-> p, decision |-> decision, event |-> e,
         before |-> after, after |-> after]}
  /\ events' = IF decision = "accept"
               THEN [events EXCEPT ![e] = after] ELSE events
  /\ UNCHANGED basis

\* after is the event an accepted proposal leaves, Absent for a rejected one.
FinalizeState(p, decision, after) ==
  LET e == Subject(proposals[p]) IN
  /\ proposals' = [proposals EXCEPT ![p].status =
                     IF decision = "accept" THEN "accepted" ELSE "rejected"]
  /\ auditTrail' = auditTrail \cup
       {[proposal |-> p, decision |-> decision, event |-> e,
         before |-> IF decision = "accept" THEN events[e] ELSE Absent,
         after |-> after]}
  /\ events' = IF decision = "accept"
               THEN [events EXCEPT ![e] = after] ELSE events
  /\ UNCHANGED basis

Reject(p) == AwaitsDecision(p) /\ FinalizeState(p, "reject", Absent)

\* The event of an add must still be missing, that of an update or a
\* cancellation still be there as it was.
Accept(p) ==
  /\ AwaitsDecision(p)
  /\ \/ /\ proposals[p].changeType = "add"
        /\ events[proposals[p].proposed.id] = Absent
        /\ FinalizeState(p, "accept",
                         ApprovedEventFromProposal(proposals[p].proposed))
     \/ /\ proposals[p].changeType # "add"
        /\ events[proposals[p].target] # Absent
        /\ ValidateTargetFingerprint(p)
        /\ FinalizeState(p, "accept",
             IF proposals[p].changeType = "update"
             THEN ApprovedEventFromProposal(proposals[p].proposed)
             ELSE ToCancelled(events[proposals[p].target]))

\* Whoever keeps the events may set or delete them at any time.
EditEvent(e, event) ==
  /\ events' = [events EXCEPT ![e] = event]
  /\ UNCHANGED <<proposals, auditTrail, basis>>

Next ==
  \/ \E p \in ProposalIds :
       \/ \E c \in Candidates : Propose(p, c)
       \/ Accept(p)
       \/ Reject(p)
  \/ \E e \in EventIds, event \in Edits \cup {Absent} : EditEvent(e, event)

Spec == Init /\ [][Next]_vars

-----------------------------------------------------------------------------
(* Properties. *)

\* "Stale proposals cannot overwrite a later edit" (src/domain/types.ts:545):
\* whatever was edited and decided in between, the event that an accepted
\* proposal replaced is the one it was made from; an added one replaced none.
DecidedAsReviewed ==
  \A entry \in auditTrail :
    entry.decision = "accept" => entry.before = basis[entry.proposal]

\* What the diff lets through, the decision does not choke on: a pending
\* proposal can be rejected, and accepted as long as its event is as it was.
\* (The two sides validate separately, against different states.)
PendingIsDecidable ==
  \A p \in ProposalIds :
    proposals[p] # Absent /\ proposals[p].status = "pending" =>
      /\ ValidateProposalForDecision(proposals[p])
      /\ proposals[p].changeType # "add"
           /\ events[Subject(proposals[p])] = basis[p] =>
             ValidateTargetFingerprint(p)

\* A decision changes the one event its entry names, from the entry's before
\* to its after; no entry is ever lost, and what was decided stays as it was
\* decided, however often the decision is sent.
Explained ==
  /\ auditTrail \subseteq auditTrail'
  /\ \A p \in ProposalIds :
       proposals[p] # Absent /\ proposals[p].status # "pending" =>
         proposals'[p] = proposals[p]
  /\ auditTrail' # auditTrail =>
       \A e \in EventIds : events'[e] # events[e] =>
         \E entry \in auditTrail' \ auditTrail :
           /\ entry.event = e
           /\ entry.before = events[e]
           /\ entry.after = events'[e]

\* Whatever is proposed, edited and decided, in whatever order and however
\* often, the trail explains every decision of applyEventDecision.
TrailExplainsDecisions == [][Explained]_vars
=============================================================================
