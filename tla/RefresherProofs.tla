--------------------------- MODULE RefresherProofs ---------------------------
(***************************************************************************)
(* Proofs about Refresher: what holds of discover by itself holds of it    *)
(* inside the process, whatever the loop around it, main and restarts do.  *)
(***************************************************************************)
EXTENDS Refresher, ArchiverDiscoveryProofs

-----------------------------------------------------------------------------
(* The process runs discover *)

\* A step of the process is one of discover or of its write tasks, or leaves them
\* alone.
LEMMA ProcessStepRuns == [ProcessNext]_processVars => [Next]_vars
<1> SUFFICES ASSUME [ProcessNext]_processVars PROVE [Next]_vars
  OBVIOUS
<1>1. ASSUME Discover PROVE Next
  BY <1>1 DEF Discover, Collect, Next
<1>2. ASSUME DiscoverEnds PROVE Next
  BY <1>2 DEF DiscoverEnds, Next
<1>3. ASSUME CacheWrite PROVE Next
  BY <1>3 DEF CacheWrite, Next
<1>4. ASSUME NEW l \in NodeLists, UpdateInstalls(l) PROVE UNCHANGED vars
  BY <1>4 DEF UpdateInstalls
<1>5. ASSUME UpdateFails \/ UpdateGivesUp \/ UpdatePanics \/ PollChats \/ Tick \/ Listen
      PROVE  UNCHANGED vars
  BY <1>5 DEF UpdateFails, UpdateGivesUp, UpdatePanics, PollChats, Tick, Listen
<1>6. ASSUME Serve \/ UNCHANGED processVars PROVE UNCHANGED vars
  BY <1>6 DEF Serve, processVars
<1>7. ASSUME Restart PROVE Next
  BY <1>7 DEF Restart, Next
<1> QED BY <1>1, <1>2, <1>3, <1>4, <1>5, <1>6, <1>7 DEF ProcessNext

\* The process implements discover's specification: every behaviour of the process
\* is one of discover, called again and again, crashed and started anew, so that
\* all that is proved of ArchiverDiscovery holds of the process.
THEOREM ProcessRunsDiscover == ProcessSpec => Spec
<1>1. ProcessInit => Init
  BY DEF ProcessInit
<1> QED BY <1>1, ProcessStepRuns, PTL DEF ProcessSpec, Spec

\* So the process, too, finds the list published last in the cache file, unless
\* writes overlapped or a crash ended one; asks an archiver of each seed's key in
\* every call of discover; and publishes exactly the keys in the lists that verified.
THEOREM ProcessInherits ==
    ProcessSpec => []CacheIsLatest /\ SeedsAreAsked /\ PublishesWhatVerified
  BY ProcessRunsDiscover, CacheHoldsLatest, SeedsAlwaysAsked, PublishesVerified, PTL

-----------------------------------------------------------------------------
(* The loop *)

LEMMA ProcessTypesInit == ProcessInit => ProcessTypeOK
<1> SUFFICES ASSUME ProcessInit PROVE ProcessTypeOK
  OBVIOUS
<1>1. TypeOK
  BY InvInit DEF ProcessInit, Inv
<1>2. 0 \in 0..(Len(active_archivers) + 1)
  BY <1>1 DEF TypeOK
<1> QED BY <1>1, <1>2 DEF ProcessInit, ProcessTypeOK

LEMMA ProcessTypesStep ==
  ProcessTypeOK /\ TypeOK' /\ [ProcessNext]_processVars => ProcessTypeOK'
<1> SUFFICES ASSUME ProcessTypeOK, TypeOK', [ProcessNext]_processVars
             PROVE  ProcessTypeOK'
  OBVIOUS
<1> USE DEF refresher, nodes
<1>1. /\ Len(active_archivers) \in Nat /\ Len(active_archivers') \in Nat
      /\ 0 \in 0..(Len(active_archivers') + 1) /\ 1 \in 0..(Len(active_archivers') + 1)
  <2>1. active_archivers \in Seq(Addressed) /\ active_archivers' \in Seq(Addressed)
    BY DEF ProcessTypeOK, TypeOK, Addressed
  <2> QED BY <2>1
<1>2. ASSUME Discover \/ CacheWrite PROVE ProcessTypeOK'
  <2>1. active_archivers' = active_archivers
    BY <1>2 DEF Discover, Collect, Begin, AnswerRejected, Answers, CacheWrite, CreateFile,
                WriteFile
  <2> QED BY <1>2, <2>1 DEF Discover, CacheWrite, ProcessTypeOK
<1>3. ASSUME DiscoverEnds PROVE ProcessTypeOK'
  BY <1>1, <1>3 DEF DiscoverEnds, ProcessTypeOK
<1>4. ASSUME NEW l \in NodeLists, UpdateInstalls(l) PROVE ProcessTypeOK'
  BY <1>1, <1>4, NodeListsAssumption
  DEF UpdateInstalls, UpdateReturns, vars, ProcessTypeOK
<1>5. ASSUME UpdateFails PROVE ProcessTypeOK'
  <2>1. pos' \in 0..(Len(active_archivers') + 1)
    BY <1>1, <1>5 DEF UpdateFails, Asking, vars, ProcessTypeOK
  <2> QED BY <1>5, <2>1 DEF UpdateFails, ProcessTypeOK
<1>6. ASSUME UpdateGivesUp \/ UpdatePanics PROVE ProcessTypeOK'
  BY <1>1, <1>6 DEF UpdateGivesUp, UpdatePanics, UpdateReturns, ProcessTypeOK
<1>7. ASSUME PollChats \/ Tick \/ Listen PROVE ProcessTypeOK'
  <2>1. active_archivers' = active_archivers
    BY <1>7 DEF PollChats, Tick, Listen, vars
  <2>2. CASE PollChats
    BY <2>1, <2>2 DEF PollChats, ProcessTypeOK
  <2>3. CASE Tick
    BY <2>1, <2>3 DEF Tick, ProcessTypeOK
  <2>4. CASE Listen
    BY <2>1, <2>4 DEF Listen, ProcessTypeOK
  <2> QED BY <1>7, <2>2, <2>3, <2>4
<1>8. ASSUME Serve \/ UNCHANGED processVars PROVE ProcessTypeOK'
  BY <1>8 DEF Serve, processVars, vars, ProcessTypeOK
<1>9. ASSUME Restart PROVE ProcessTypeOK'
  BY <1>1, <1>9 DEF Restart, ProcessTypeOK
<1> QED BY <1>2, <1>3, <1>4, <1>5, <1>6, <1>7, <1>8, <1>9 DEF ProcessNext

\* The refresher's place stays within the list it walks, one past its end at most,
\* though every round publishes another list; what requests share with it keeps its
\* type (update_active_nodelist, main).
THEOREM ProcessTypes == ProcessSpec => []ProcessTypeOK
<1>1. ProcessSpec => []TypeOK
  BY ProcessRunsDiscover, DiscoveryTypes, PTL
<1> QED BY <1>1, ProcessTypesInit, ProcessTypesStep, PTL DEF ProcessSpec

=============================================================================
