--------------------------- MODULE EventReviewProofs --------------------------
(***************************************************************************)
(* For any events, any candidates, any edits and any number of proposals:  *)
(* a proposal is accepted only against the event it was made from, each is *)
(* decided at most once, and the trail explains every decision.  The       *)
(* candidates are of the three types of EventChangeCandidate wherever a    *)
(* theorem says so.                                                        *)
(***************************************************************************)
EXTENDS EventReview, TLAPS

\* What a pending proposal remembers of the event it was made from.
Remembers(p) ==
  /\ proposals[p].changeType # "add" =>
       /\ proposals[p].target \in EventIds
       /\ basis[p] \in Event
       /\ basis[p].status = "approved"
       /\ proposals[p].expected = EventFingerprint(proposals[p].target, basis[p])
  /\ proposals[p].changeType = "add" =>
       /\ proposals[p].proposed \in Proposed
       /\ basis[p] = Absent

\* The inductive invariant: besides the property, every proposal remembers its
\* basis and the trail speaks of decided proposals only.
ReviewInv ==
  /\ TypeOK
  /\ DecidedAsReviewed
  /\ \A p \in ProposalIds : proposals[p] # Absent => Remembers(p)
  /\ \A entry \in auditTrail :
       /\ proposals[entry.proposal] # Absent
       /\ proposals[entry.proposal].status # "pending"

-----------------------------------------------------------------------------

\* diffEventProposals makes proposals that remember, and changes nothing else.
LEMMA ProposeInv ==
  ASSUME ReviewInv, NEW p \in ProposalIds, NEW c \in Candidates, Propose(p, c)
  PROVE  ReviewInv'
<1> DEFINE made == [changeType |-> c.changeType, target |-> c.target,
                    proposed |-> c.proposed, sources |-> c.sources,
                    status |-> "pending",
                    expected |-> IF c.changeType = "add" THEN Absent
                                 ELSE EventFingerprint(c.target, events[c.target])]
<1>1. /\ c.changeType \in STRING
      /\ c.target \in EventIds \cup {Absent}
      /\ c.proposed \in Proposed \cup {Absent}
      /\ c.sources \subseteq Sources
  BY InputsAssumption
<1>2. /\ proposals[p] = Absent
      /\ proposals' = [proposals EXCEPT ![p] = made]
      /\ basis' = [basis EXCEPT ![p] = events[Subject(c)]]
      /\ events' = events /\ auditTrail' = auditTrail
  BY DEF Propose
<1>3. CASE c.changeType = "add"
  <2>1. /\ c.proposed \in Proposed
        /\ events[c.proposed.id] = Absent
        /\ Subject(c) = c.proposed.id
    BY <1>1, <1>3 DEF Propose, ValidateAddCandidate, RequireSuggestedEvent, Subject
  <2>2. made \in Proposal
    BY <1>1, <1>3 DEF Proposal
  <2> QED
    BY <1>2, <1>3, <2>1, <2>2 DEF ReviewInv, TypeOK, DecidedAsReviewed, Remembers,
       AuditEntry
<1>4. CASE c.changeType # "add"
  <2>1. RequireApprovedFutureTarget(c)
    BY <1>4 DEF Propose, ValidateUpdateCandidate
  <2>2. /\ c.target \in EventIds
        /\ events[c.target] \in Event
        /\ events[c.target].status = "approved"
        /\ Subject(c) = c.target
    BY <1>1, <1>4, <2>1 DEF RequireApprovedFutureTarget, Subject, ReviewInv,
       TypeOK, EventBases
  <2>3. made \in Proposal
    BY <1>1, <1>4, <2>2 DEF Proposal, EventFingerprint
  <2> QED
    BY <1>2, <1>4, <2>2, <2>3 DEF ReviewInv, TypeOK, DecidedAsReviewed, Remembers,
       AuditEntry
<1> QED
  BY <1>3, <1>4

\* A decision about a pending proposal whose event is as remembered, if it
\* accepts, keeps the invariant.
LEMMA FinalizeInv ==
  ASSUME ReviewInv, NEW p \in ProposalIds, AwaitsDecision(p),
         NEW decision \in {"accept", "reject"},
         NEW after \in Event \cup {Absent},
         Subject(proposals[p]) \in EventIds,
         decision = "accept" => events[Subject(proposals[p])] = basis[p],
         FinalizeState(p, decision, after)
  PROVE  ReviewInv'
<1> DEFINE e == Subject(proposals[p])
           entry == [proposal |-> p, decision |-> decision, event |-> e,
                     before |-> IF decision = "accept" THEN events[e] ELSE Absent,
                     after |-> after]
           decided == IF decision = "accept" THEN "accepted" ELSE "rejected"
<1>1. /\ proposals' = [proposals EXCEPT ![p].status = decided]
      /\ auditTrail' = auditTrail \cup {entry}
      /\ events' = IF decision = "accept" THEN [events EXCEPT ![e] = after] ELSE events
      /\ basis' = basis
  BY DEF FinalizeState
<1>2. proposals[p] \in Proposal /\ events[e] \in Event \cup {Absent}
  BY DEF ReviewInv, TypeOK, AwaitsDecision, EventBases
<1>3. /\ [proposals[p] EXCEPT !.status = decided] \in Proposal
      /\ entry \in AuditEntry
  BY <1>2 DEF Proposal, AuditEntry
<1>4. proposals' = [proposals EXCEPT ![p] = [proposals[p] EXCEPT !.status = decided]]
  BY <1>1, <1>2 DEF ReviewInv, TypeOK
<1>5. TypeOK'
  BY <1>1, <1>3, <1>4 DEF ReviewInv, TypeOK, EventBases
<1>6. DecidedAsReviewed'
  BY <1>1 DEF ReviewInv, DecidedAsReviewed
<1>7. ASSUME NEW q \in ProposalIds, proposals'[q] # Absent
      PROVE  Remembers(q)'
  <2>1. /\ proposals[q] # Absent
        /\ proposals'[q].changeType = proposals[q].changeType
        /\ proposals'[q].target = proposals[q].target
        /\ proposals'[q].proposed = proposals[q].proposed
        /\ proposals'[q].expected = proposals[q].expected
    BY <1>2, <1>4, <1>7 DEF ReviewInv, TypeOK, Proposal, AwaitsDecision
  <2> QED
    BY <1>1, <2>1 DEF ReviewInv, Remembers
<1>8. ASSUME NEW other \in auditTrail'
      PROVE  /\ proposals'[other.proposal] # Absent
             /\ proposals'[other.proposal].status # "pending"
  <2>1. /\ proposals'[p] = [proposals[p] EXCEPT !.status = decided]
        /\ proposals'[p].status = decided
        /\ proposals'[p] # Absent
    BY <1>2, <1>3, <1>4, AbsentAssumption DEF ReviewInv, TypeOK, Proposal
  <2> QED
    BY <1>1, <1>4, <2>1 DEF ReviewInv, TypeOK, AuditEntry
<1> QED
  BY <1>5, <1>6, <1>7, <1>8 DEF ReviewInv

\* applyEventDecision, accepting: the two conditions on the event, checked
\* against the events of that moment, make it the remembered one.
LEMMA AcceptInv ==
  ASSUME ReviewInv, NEW p \in ProposalIds, Accept(p)
  PROVE  ReviewInv'
<1>1. /\ AwaitsDecision(p)
      /\ proposals[p] \in Proposal
      /\ Remembers(p)
  BY DEF Accept, AwaitsDecision, ReviewInv, TypeOK
<1>2. CASE proposals[p].changeType = "add"
  <2> DEFINE after == ApprovedEventFromProposal(proposals[p].proposed)
  <2>1. /\ proposals[p].proposed \in Proposed
        /\ basis[p] = Absent
        /\ Subject(proposals[p]) = proposals[p].proposed.id
    BY <1>1, <1>2 DEF Remembers, Subject
  <2>2. /\ events[proposals[p].proposed.id] = Absent
        /\ FinalizeState(p, "accept", after)
    BY <1>2 DEF Accept
  <2>3. after \in Event /\ proposals[p].proposed.id \in EventIds
    BY <2>1 DEF ApprovedEventFromProposal, Proposed, Event, Statuses
  <2> HIDE DEF after
  <2> QED
    BY <1>1, <2>1, <2>2, <2>3, FinalizeInv
<1>3. CASE proposals[p].changeType # "add"
  <2> DEFINE e == proposals[p].target
             after == IF proposals[p].changeType = "update"
                      THEN ApprovedEventFromProposal(proposals[p].proposed)
                      ELSE ToCancelled(events[e])
  <2>1. /\ e \in EventIds /\ Subject(proposals[p]) = e
        /\ basis[p] \in Event
        /\ proposals[p].expected = EventFingerprint(e, basis[p])
    BY <1>1, <1>3 DEF Remembers, Subject
  <2>2. /\ events[e] # Absent
        /\ EventFingerprint(e, events[e]) = proposals[p].expected
        /\ FinalizeState(p, "accept", after)
    BY <1>3 DEF Accept, ValidateTargetFingerprint
  <2>3. events[e] \in Event
    BY <2>1, <2>2 DEF ReviewInv, TypeOK, EventBases
  <2>4. events[e] = basis[p]
    BY <2>1, <2>2, <2>3, HashAssumption DEF EventFingerprint
  <2>5. CASE proposals[p].changeType = "update"
    <3>1. proposals[p].proposed \in Proposed
      BY <1>1, <2>5 DEF AwaitsDecision, ValidateProposalForDecision,
         RequireSuggestedEvent, Proposal
    <3>2. after \in Event
      BY <2>5, <3>1 DEF ApprovedEventFromProposal, Proposed, Event, Statuses
    <3> HIDE DEF after, e
    <3> QED
      BY <1>1, <2>1, <2>2, <2>4, <3>2, FinalizeInv
  <2>6. CASE proposals[p].changeType # "update"
    <3>1. after \in Event
      BY <2>3, <2>6 DEF ToCancelled, Event, Statuses
    <3> HIDE DEF after, e
    <3> QED
      BY <1>1, <2>1, <2>2, <2>4, <3>1, FinalizeInv
  <2> QED
    BY <2>5, <2>6
<1> QED
  BY <1>2, <1>3

\* applyEventDecision, rejecting.
LEMMA RejectInv ==
  ASSUME ReviewInv, NEW p \in ProposalIds, Reject(p)
  PROVE  ReviewInv'
<1>1. /\ AwaitsDecision(p)
      /\ FinalizeState(p, "reject", Absent)
      /\ Remembers(p)
  BY DEF Reject, AwaitsDecision, ReviewInv
<1>2. Subject(proposals[p]) \in EventIds
  BY <1>1 DEF Remembers, Subject, Proposed
<1> QED
  BY <1>1, <1>2, FinalizeInv

\* The invariant holds of every review.
LEMMA Reviewed == Spec => []ReviewInv
<1>1. Init => ReviewInv
  BY InputsAssumption DEF Init, ReviewInv, TypeOK, DecidedAsReviewed
<1>2. ReviewInv /\ [Next]_vars => ReviewInv'
  <2> SUFFICES ASSUME ReviewInv, [Next]_vars PROVE ReviewInv'
    OBVIOUS
  <2>1. CASE \E p \in ProposalIds, c \in Candidates : Propose(p, c)
    BY <2>1, ProposeInv
  <2>2. CASE \E p \in ProposalIds : Accept(p)
    BY <2>2, AcceptInv
  <2>3. CASE \E p \in ProposalIds : Reject(p)
    BY <2>3, RejectInv
  <2>4. ASSUME NEW e \in EventIds, NEW event \in Edits \cup {Absent},
               EditEvent(e, event)
        PROVE  ReviewInv'
    BY <2>4, InputsAssumption DEF EditEvent, ReviewInv, TypeOK, EventBases,
       DecidedAsReviewed, Remembers
  <2>5. CASE UNCHANGED vars
    BY <2>5 DEF vars, ReviewInv, TypeOK, DecidedAsReviewed, Remembers
  <2> QED
    BY <2>1, <2>2, <2>3, <2>4, <2>5 DEF Next
<1> QED
  BY <1>1, <1>2, PTL DEF Spec

-----------------------------------------------------------------------------

\* Events, proposals and the audit trail keep their types.
THEOREM TypeCorrect == Spec => []TypeOK
BY Reviewed, PTL DEF ReviewInv

\* An accepted proposal replaced the event it was made from, whatever edits
\* and decisions came between its making and its acceptance.
THEOREM StaleNeverAccepted == Spec => []DecidedAsReviewed
BY Reviewed, PTL DEF ReviewInv

-----------------------------------------------------------------------------
(* What the diff lets through, the decision does not choke on. *)

Checked ==
  \A p \in ProposalIds :
    proposals[p] # Absent => ValidateProposalForDecision(proposals[p])

\* The two validations agree: what diffEventProposals makes of a candidate of
\* a declared type is what applyEventDecision calls valid.
LEMMA ProposeChecked ==
  ASSUME ReviewInv, Checked, NEW p \in ProposalIds, NEW c \in Candidates,
         c.changeType \in ChangeTypes, Propose(p, c)
  PROVE  Checked'
<1> DEFINE made == proposals'[p]
<1>1. /\ proposals' = [proposals EXCEPT ![p] = made]
      /\ made.changeType = c.changeType /\ made.target = c.target
      /\ made.proposed = c.proposed /\ made.sources = c.sources
      /\ made.expected = IF c.changeType = "add" THEN Absent
                         ELSE EventFingerprint(c.target, events[c.target])
      /\ c.sources # {}
  BY DEF Propose, ReviewInv, TypeOK
<1>2. CASE c.changeType = "add"
  <2>1. ValidateAddCandidate(c)
    BY <1>2 DEF Propose
  <2>2. ValidateProposalForDecision(made)
    BY <1>1, <1>2, <2>1 DEF ValidateAddCandidate, ValidateProposalForDecision, ChangeTypes
  <2> QED
    BY <1>1, <2>2 DEF Checked, ReviewInv, TypeOK
<1>3. CASE c.changeType # "add"
  <2>1. RequireApprovedFutureTarget(c)
    BY <1>3 DEF Propose, ValidateUpdateCandidate
  <2>2. /\ c.target \in EventIds
        /\ events[c.target] \in Event
    BY <2>1, InputsAssumption DEF RequireApprovedFutureTarget, ReviewInv, TypeOK,
       EventBases
  <2>3. made.target # Absent /\ made.expected # Absent
    BY <1>1, <1>3, <2>2, AbsentAssumption, HashAssumption DEF EventFingerprint
  <2>4. CASE c.changeType = "cancel"
    <3>1. c.proposed = Absent
      BY <2>4 DEF Propose
    <3>2. ValidateProposalForDecision(made)
      BY <1>1, <2>3, <2>4, <3>1 DEF ValidateProposalForDecision, ChangeTypes
    <3> QED
      BY <1>1, <3>2 DEF Checked, ReviewInv, TypeOK
  <2>5. CASE c.changeType = "update"
    <3>1. ValidateUpdateCandidate(c)
      BY <2>5 DEF Propose
    <3>2. ValidateProposalForDecision(made)
      BY <1>1, <2>3, <2>5, <3>1 DEF ValidateUpdateCandidate,
         ValidateProposalForDecision, ChangeTypes
    <3> QED
      BY <1>1, <3>2 DEF Checked, ReviewInv, TypeOK
  <2> QED
    BY <1>3, <2>4, <2>5 DEF ChangeTypes
<1> QED
  BY <1>2, <1>3

\* A decision changes the status of a proposal, which the validation does not
\* look at.
LEMMA FinalizeChecked ==
  ASSUME ReviewInv, Checked, NEW p \in ProposalIds, AwaitsDecision(p),
         NEW decision, NEW after, FinalizeState(p, decision, after)
  PROVE  Checked'
<1>1. ASSUME NEW q \in ProposalIds, proposals'[q] # Absent
      PROVE  ValidateProposalForDecision(proposals'[q])
  <2> DEFINE decided == IF decision = "accept" THEN "accepted" ELSE "rejected"
  <2>1. proposals' = [proposals EXCEPT ![p].status = decided]
    BY DEF FinalizeState
  <2>2. /\ proposals[q] # Absent
        /\ proposals'[q].changeType = proposals[q].changeType
        /\ proposals'[q].target = proposals[q].target
        /\ proposals'[q].proposed = proposals[q].proposed
        /\ proposals'[q].sources = proposals[q].sources
        /\ proposals'[q].expected = proposals[q].expected
    <3> HIDE DEF decided
    <3>1. proposals[p] \in Proposal
      BY DEF AwaitsDecision, ReviewInv, TypeOK
    <3> QED
      BY <1>1, <2>1, <3>1 DEF ReviewInv, TypeOK, Proposal, AwaitsDecision
  <2>3. ValidateProposalForDecision(proposals[q])
    BY <2>2 DEF Checked
  <2> QED
    BY <2>2, <2>3 DEF ValidateProposalForDecision
<1> QED
  BY <1>1 DEF Checked

\* No pending proposal is stuck, provided the candidates are of the types that
\* EventChangeCandidate declares: it can be rejected, and accepted while its
\* event is as it was.
THEOREM PendingNeverStuck ==
  ASSUME \A c \in Candidates : c.changeType \in ChangeTypes
  PROVE  Spec => []PendingIsDecidable
<1>1. Init => Checked
  BY DEF Init, Checked
<1>2. ReviewInv /\ Checked /\ [Next]_vars => Checked'
  <2> SUFFICES ASSUME ReviewInv, Checked, [Next]_vars PROVE Checked'
    OBVIOUS
  <2>1. CASE \E p \in ProposalIds, c \in Candidates : Propose(p, c)
    BY <2>1, ProposeChecked
  <2>2. CASE \E p \in ProposalIds : Accept(p) \/ Reject(p)
    <3>1. PICK p \in ProposalIds : Accept(p) \/ Reject(p)
      BY <2>2
    <3>2. AwaitsDecision(p)
      BY <3>1 DEF Accept, Reject
    <3>3. \E decision, after : FinalizeState(p, decision, after)
      BY <3>1 DEF Accept, Reject
    <3> QED
      BY <3>2, <3>3, FinalizeChecked
  <2>3. CASE \/ UNCHANGED vars
             \/ \E e \in EventIds, event \in Edits \cup {Absent} : EditEvent(e, event)
    BY <2>3 DEF vars, EditEvent, Checked
  <2> QED
    BY <2>1, <2>2, <2>3 DEF Next
<1>3. ReviewInv /\ Checked => PendingIsDecidable
  <2> SUFFICES ASSUME ReviewInv, Checked, NEW p \in ProposalIds,
                      proposals[p] # Absent, proposals[p].changeType # "add",
                      events[Subject(proposals[p])] = basis[p]
               PROVE  ValidateTargetFingerprint(p)
    BY DEF PendingIsDecidable, Checked
  <2> QED
    BY DEF ReviewInv, Remembers, Subject, ValidateTargetFingerprint
<1> QED
  BY <1>1, <1>2, <1>3, Reviewed, PTL DEF Spec

-----------------------------------------------------------------------------
(* The trail. *)

\* A decision's entry is a new one, because there is none yet of a proposal that
\* is pending.
LEMMA FinalizeExplained ==
  ASSUME ReviewInv, NEW p \in ProposalIds, AwaitsDecision(p),
         NEW decision, NEW after, FinalizeState(p, decision, after)
  PROVE  Explained
<1> DEFINE e == Subject(proposals[p])
           entry == [proposal |-> p, decision |-> decision, event |-> e,
                     before |-> IF decision = "accept" THEN events[e] ELSE Absent,
                     after |-> after]
<1>1. /\ proposals' = [proposals EXCEPT ![p].status =
                        IF decision = "accept" THEN "accepted" ELSE "rejected"]
      /\ auditTrail' = auditTrail \cup {entry}
      /\ events' = IF decision = "accept" THEN [events EXCEPT ![e] = after] ELSE events
  BY DEF FinalizeState
<1>2. proposals[p].status = "pending"
  BY DEF AwaitsDecision
<1>3. entry.proposal = p /\ entry.event = e /\ entry.after = after
  OBVIOUS
<1>4. entry \notin auditTrail
  BY <1>2, <1>3 DEF ReviewInv
<1>5. ASSUME NEW f \in EventIds, events'[f] # events[f]
      PROVE  /\ decision = "accept" /\ f = e
             /\ entry.before = events[f] /\ after = events'[f]
  BY <1>1, <1>5 DEF ReviewInv, TypeOK, EventBases
<1>6. \A q \in ProposalIds :
        proposals[q] # Absent /\ proposals[q].status # "pending" =>
          proposals'[q] = proposals[q]
  BY <1>1, <1>2 DEF ReviewInv, TypeOK
<1> HIDE DEF entry
<1> QED
  BY <1>1, <1>3, <1>4, <1>5, <1>6 DEF Explained

\* A decision changes the event its entry names and nothing else, no entry is lost,
\* and what was decided stays decided, whatever is proposed, edited and sent again.
THEOREM TrailExplains == Spec => TrailExplainsDecisions
<1>1. ReviewInv /\ [Next]_vars => [Explained]_vars
  <2> SUFFICES ASSUME ReviewInv, Next PROVE Explained
    OBVIOUS
  <2>1. CASE \E p \in ProposalIds, c \in Candidates : Propose(p, c)
    BY <2>1 DEF Propose, Explained, ReviewInv, TypeOK
  <2>2. CASE \E p \in ProposalIds : Accept(p) \/ Reject(p)
    <3>1. PICK p \in ProposalIds : Accept(p) \/ Reject(p)
      BY <2>2
    <3>2. AwaitsDecision(p) /\ \E decision, after : FinalizeState(p, decision, after)
      BY <3>1 DEF Accept, Reject
    <3> QED
      BY <3>2, FinalizeExplained
  <2>3. CASE \E e \in EventIds, event \in Edits \cup {Absent} : EditEvent(e, event)
    BY <2>3 DEF EditEvent, Explained
  <2> QED
    BY <2>1, <2>2, <2>3 DEF Next
<1> QED
  BY <1>1, Reviewed, PTL DEF Spec, TrailExplainsDecisions
=============================================================================
