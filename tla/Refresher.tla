----------------------------- MODULE Refresher -----------------------------
(***************************************************************************)
(* The process around the components: main spawns one task that discovers  *)
(* archivers, fetches the node list from the first of them whose answer    *)
(* verifies, polls the chat rooms, and does it all again at every tick;    *)
(* main itself waits for a node list before it opens the port.             *)
(*                                                                         *)
(* discover is module ArchiverDiscovery, whose cache-writing tasks go on   *)
(* beside the loop.  What installing a list does to requests under way is  *)
(* InstallNodes of NodeSelection; the rounds discover_new_chats leaves     *)
(* behind are those of ChatRelay.                                          *)
(***************************************************************************)
EXTENDS ArchiverDiscovery

CONSTANTS
    NodeLists,   \* the lists an archiver may sign
    Reliable,    \* keys of archivers that are up again and again, and know one
    Silent,      \* keys of archivers that may accept a call and never answer
    Garbling     \* keys of archivers whose answer may make an unwrap panic

\* An archiver signs no empty list: it would end the search (there is a break)
\* and leave the server closed, or open with no node to call.
ASSUME NodeListsAssumption == NodeLists # {} /\ <<>> \notin NodeLists

VARIABLES
    at,                \* the call the refresher is in, "tick" between rounds,
                       \* "dead" after a panic
    first,             \* it has not reached its loop yet
    pos,               \* the archiver update_active_nodelist asks
    active_nodelist,
    listening          \* main has opened the port

refresher == <<at, first, pos>>
nodes == <<active_nodelist, listening>>
processVars == <<vars, refresher, nodes>>

-----------------------------------------------------------------------------
(* discover *)

Silenced(i) == base[i].publicKey \in Silent
Collect(i) == AnswerRejected(i) \/ \E l \in Reports : Answers(i, l)

Discover ==
    /\ at = "discover"
    /\ Begin \/ \E i \in asked : Collect(i)
    /\ UNCHANGED <<refresher, nodes>>

DiscoverEnds ==
    /\ at = "discover"
    /\ Publish
    /\ at' = "update"
    /\ pos' = 1
    /\ UNCHANGED <<first, nodes>>

CacheWrite ==
    /\ \E w \in writes : CreateFile(w) \/ WriteFile(w)
    /\ UNCHANGED <<refresher, nodes>>

-----------------------------------------------------------------------------
(* update_active_nodelist *)

Asking == at = "update" /\ pos <= Len(active_archivers)

\* The first pass has no chats to poll.
UpdateReturns ==
    /\ at' = IF first THEN "tick" ELSE "chats"
    /\ pos' = 0

UpdateInstalls(l) ==
    /\ Asking
    /\ active_nodelist' = l
    /\ UpdateReturns
    /\ UNCHANGED <<vars, first, listening>>

\* Faulty variant of UpdateFails: break for continue.
UpdateStops ==
    /\ Asking
    /\ UpdateReturns
    /\ UNCHANGED <<vars, first, nodes>>

\* No answer, or one that is not JSON or not signed.
UpdateFails ==
    /\ Asking
    /\ pos' = pos + 1
    /\ UNCHANGED <<vars, at, first, nodes>>

\* Nobody is left to ask: the list served so far stays.
UpdateGivesUp ==
    /\ at = "update"
    /\ pos > Len(active_archivers)
    /\ UpdateReturns
    /\ UNCHANGED <<vars, first, nodes>>

\* An answer whose body breaks off, or is signed with what is no key: unwrap.
UpdatePanics ==
    /\ Asking
    /\ active_archivers[pos].publicKey \in Garbling
    /\ at' = "dead"
    /\ pos' = 0
    /\ UNCHANGED <<vars, first, nodes>>

-----------------------------------------------------------------------------
(* The loop, the gate, and the process *)

\* discover_new_chats only spawns.
PollChats ==
    /\ at = "chats"
    /\ at' = "tick"
    /\ UNCHANGED <<vars, first, pos, nodes>>

Tick ==
    /\ at = "tick"
    /\ at' = "discover"
    /\ first' = FALSE
    /\ UNCHANGED <<vars, pos, nodes>>

\* One round of main's polling loop.
Listen ==
    /\ ~listening
    /\ listening' = (active_nodelist # <<>>)
    /\ UNCHANGED <<vars, refresher, active_nodelist>>

\* Requests are served, whatever has become of the refresher.
Serve ==
    /\ listening
    /\ UNCHANGED processVars

Restart ==
    /\ Crash
    /\ at' = "discover"
    /\ first' = TRUE
    /\ pos' = 0
    /\ active_nodelist' = <<>>
    /\ listening' = FALSE

-----------------------------------------------------------------------------
ProcessInit ==
    /\ Init
    /\ at = "discover"
    /\ first = TRUE
    /\ pos = 0
    /\ active_nodelist = <<>>
    /\ listening = FALSE

ProcessNext ==
    \/ Discover \/ DiscoverEnds \/ CacheWrite
    \/ \E l \in NodeLists : UpdateInstalls(l)
    \/ UpdateFails \/ UpdateGivesUp \/ UpdatePanics
    \/ PollChats \/ Tick
    \/ Listen \/ Serve
    \/ Restart

ProcessSpec == ProcessInit /\ [][ProcessNext]_processVars

\* The refresher goes on whenever no silent archiver keeps it waiting.
Waiting ==
    \/ at = "discover" /\ asked # {} /\ \A i \in asked : Silenced(i)
    \/ Asking /\ active_archivers[pos].publicKey \in Silent
GoesOn ==
    /\ ~Waiting
    /\ \/ Discover \/ DiscoverEnds
       \/ \E l \in NodeLists : UpdateInstalls(l)
       \/ UpdateFails \/ UpdateGivesUp \/ UpdatePanics
       \/ PollChats \/ Tick

\* A reliable archiver names a reliable one, and gives a node list.
NamesReliable ==
    /\ at = "discover"
    /\ \E i \in asked, l \in Reports :
          /\ base[i].publicKey \in Reliable
          /\ Keys(l) \cap Reliable # {}
          /\ Answers(i, l)
    /\ UNCHANGED <<refresher, nodes>>
GivesNodes ==
    /\ Asking
    /\ active_archivers[pos].publicKey \in Reliable
    /\ \E l \in NodeLists : UpdateInstalls(l)

\* tokio runs every runnable task and the interval keeps ticking; calls to
\* archivers that are not silent end; of repeated calls to a reliable archiver
\* some succeed.
Fairness ==
    /\ WF_processVars(GoesOn)
    /\ WF_processVars(CacheWrite)
    /\ WF_processVars(Listen)
    /\ SF_processVars(NamesReliable)
    /\ SF_processVars(GivesNodes)
FairProcess == ProcessSpec /\ Fairness

-----------------------------------------------------------------------------
(* Properties *)

\* The type invariant of the process: that of discover, the refresher's place,
\* and what the requests share with it.
ProcessTypeOK ==
    /\ TypeOK
    /\ at \in {"discover", "update", "chats", "tick", "dead"}
    /\ first \in BOOLEAN
    /\ pos \in 0..(Len(active_archivers) + 1)
    /\ active_nodelist \in NodeLists \cup {<<>>}
    /\ listening \in BOOLEAN

\* However often the process was restarted, and whatever cache file it finds,
\* it opens its port in the end, unless a panic kills the refresher first: the
\* seeds are asked every time, and an archiver that fails is passed over.
ServerComesUp == []<>(listening \/ at = "dead")

\* "Automatically discovers active archivers and updates nodelists
\* periodically" (main.rs, Features): there is always another round.
RefreshGoesOn == []<>(at = "tick")
=============================================================================
