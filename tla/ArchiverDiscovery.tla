------------------------- MODULE ArchiverDiscovery -------------------------
(***************************************************************************)
(* ArchiverUtil::discover, called over and over by the refresher task: it  *)
(* asks the cached and the seed archivers for the archivers they know,     *)
(* publishes the collected list and leaves a task behind that writes it to *)
(* the cache file.  The next call reads that file, whether or not the      *)
(* write has happened, and so does the next process after a crash.         *)
(***************************************************************************)
EXTENDS Integers, Sequences, Functions

CONSTANTS
    Archiver,    \* [publicKey, ip] records that may occur in a list
    Seeds,       \* the seed file, a sequence of archivers
    Reports,     \* the lists an archiver may answer with
    Standalone,  \* config.standalone_network: a replacement ip, or None
    MaxEntries,  \* bound: entries collected by one call
    MaxWrites,   \* bound: cache writes under way at once
    MaxCrashes,  \* bound: restarts of the process
    None

ASSUME ArchiverAssumption ==
    \A a \in Archiver : a = [publicKey |-> a.publicKey, ip |-> a.ip]
ASSUME SeedsAssumption == Seeds \in Seq(Archiver) /\ Reports \subseteq Seq(Archiver)
ASSUME BoundAssumption == /\ MaxEntries \in Nat
                          /\ MaxWrites \in Nat \ {0}
                          /\ MaxCrashes \in Nat

VARIABLES
    cache,             \* the cache file: whether it parses, its list, its size
    active_archivers,
    pc,                \* "idle" or "collect": where the call of discover is
    base,              \* the list whose members are asked
    asked,             \* indices of base whose fetch task has not answered
    tmp,               \* what has been collected so far
    writes,            \* the spawned tasks that write the cache file
    crashes,           \* how often the process was restarted
    reported,          \* history: who was in a list that verified, this call
    latest,            \* history: the list published last, by any process
    cut                \* history: since then two writes overlapped or a crash
                       \* ended one

call == <<pc, base, asked, tmp, reported>>
history == <<latest, cut>>
vars == <<cache, active_archivers, call, writes, crashes, history>>

-----------------------------------------------------------------------------
\* Faulty variant of Repeats: neighbours are compared by address.
RepeatsIp(l, n) == n > 1 /\ l[n].ip = l[n - 1].ip

\* Vec::dedup_by on the public key: drops what repeats its predecessor.  Kept(l)[n]
\* is what it keeps of the first n entries.
Repeats(l, n) == n > 1 /\ l[n].publicKey = l[n - 1].publicKey
Kept(l) ==
    LET kept[n \in 0..Len(l)] ==
            IF n = 0 THEN <<>>
            ELSE IF Repeats(l, n) THEN kept[n - 1]
            ELSE Append(kept[n - 1], l[n])
    IN  kept
dedup(l) == Kept(l)[Len(l)]

\* In a standalone network every archiver answers at one address.
Readdressed(l) ==
    IF Standalone = None THEN l
    ELSE [i \in 1..Len(l) |-> [l[i] EXCEPT !.ip = Standalone]]

Keys(l) == {l[i].publicKey : i \in 1..Len(l)}

\* The file's size is counted in entries, all taken to be of one length.
File(l) == [parses |-> TRUE, list |-> l, size |-> Len(l)]
Unreadable(n) == [parses |-> FALSE, list |-> <<>>, size |-> n]

-----------------------------------------------------------------------------
\* Faulty variants of Begin: the seeds are used only while there is no cache; one
\* fetch task for each entry before the duplicates are dropped.
BeginFromCache ==
    /\ pc = "idle"
    /\ base' = dedup(IF cache.list # <<>> THEN cache.list ELSE Seeds)
    /\ asked' = DOMAIN base'
    /\ tmp' = <<>>
    /\ reported' = {}
    /\ pc' = "collect"
    /\ UNCHANGED <<cache, active_archivers, writes, crashes, history>>
BeginTooMany ==
    /\ pc = "idle"
    /\ base' = dedup(cache.list \o Seeds)
    /\ asked' = DOMAIN (cache.list \o Seeds)
    /\ tmp' = <<>>
    /\ reported' = {}
    /\ pc' = "collect"
    /\ UNCHANGED <<cache, active_archivers, writes, crashes, history>>

\* Reads the cache (an error or a file that does not parse counts as no list),
\* appends the seeds, and spawns one fetch task for each entry left.
Begin ==
    /\ pc = "idle"
    /\ LET known == dedup(cache.list \o Seeds) IN
         /\ base' = known
         /\ asked' = DOMAIN known
    /\ tmp' = <<>>
    /\ reported' = {}
    /\ pc' = "collect"
    /\ UNCHANGED <<cache, active_archivers, writes, crashes, history>>

\* The i-th archiver answers with the list l, and its signature verifies.
Answers(i, l) ==
    /\ pc = "collect"
    /\ i \in asked
    /\ Len(tmp) + Len(l) <= MaxEntries
    /\ tmp' = tmp \o l
    /\ reported' = reported \cup Range(l)
    /\ asked' = asked \ {i}
    /\ UNCHANGED <<cache, active_archivers, pc, base, writes, crashes, history>>

\* No answer, or one that is not JSON or not signed: whatever it lists is not
\* collected.
AnswerRejected(i) ==
    /\ pc = "collect"
    /\ i \in asked
    /\ asked' = asked \ {i}
    /\ UNCHANGED <<cache, active_archivers, pc, base, tmp, reported, writes, crashes, history>>

Unused == (1..MaxWrites) \ {w.id : w \in writes}

\* All fetch tasks are done: publish the list and spawn the cache write.
Publish ==
    /\ pc = "collect"
    /\ asked = {}
    /\ Unused # {}
    /\ LET list == Readdressed(dedup(tmp)) IN
         /\ active_archivers' = list
         /\ writes' = writes \cup
                {[id |-> CHOOSE k \in Unused : TRUE, stage |-> "create", list |-> list]}
         /\ latest' = list
    /\ cut' = (writes # {})
    /\ pc' = "idle"
    /\ tmp' = <<>>
    /\ base' = <<>>
    /\ reported' = {}
    /\ UNCHANGED <<cache, asked, crashes>>

\* Faulty variant of CreateFile: the file is opened for writing, not truncated.
OpenFile(w) ==
    /\ w.stage = "create"
    /\ writes' = (writes \ {w}) \cup {[w EXCEPT !.stage = "write"]}
    /\ UNCHANGED <<cache, active_archivers, call, crashes, history>>

\* File::create truncates the file.
CreateFile(w) ==
    /\ w.stage = "create"
    /\ cache' = Unreadable(0)
    /\ writes' = (writes \ {w}) \cup {[w EXCEPT !.stage = "write"]}
    /\ UNCHANGED <<active_archivers, call, crashes, history>>

\* write_all, from offset 0; what a longer write of another task left behind it
\* stays.
WriteFile(w) ==
    /\ w.stage = "write"
    /\ cache' = IF Len(w.list) >= cache.size THEN File(w.list) ELSE Unreadable(cache.size)
    /\ writes' = writes \ {w}
    /\ UNCHANGED <<active_archivers, call, crashes, history>>

\* The process dies and is started again.  A list is one write call, which a
\* dying process does not split.
Crash ==
    /\ crashes < MaxCrashes
    /\ crashes' = crashes + 1
    /\ cut' = (cut \/ writes # {})
    /\ writes' = {}
    /\ active_archivers' = <<>>
    /\ pc' = "idle"
    /\ base' = <<>>
    /\ asked' = {}
    /\ tmp' = <<>>
    /\ reported' = {}
    /\ UNCHANGED <<cache, latest>>

Init ==
    /\ cache = Unreadable(0)
    /\ active_archivers = <<>>
    /\ pc = "idle"
    /\ base = <<>>
    /\ asked = {}
    /\ tmp = <<>>
    /\ writes = {}
    /\ crashes = 0
    /\ reported = {}
    /\ latest = None
    /\ cut = FALSE

Next ==
    \/ Begin
    \/ \E i \in asked : AnswerRejected(i) \/ \E l \in Reports : Answers(i, l)
    \/ Publish
    \/ \E w \in writes : CreateFile(w) \/ WriteFile(w)
    \/ Crash

Spec == Init /\ [][Next]_vars

-----------------------------------------------------------------------------
(* Properties *)

Addressed == Archiver \cup {[a EXCEPT !.ip = Standalone] : a \in Archiver}

\* The type invariant of the file, the published list and the call of discover.
TypeOK ==
    /\ cache \in [parses : BOOLEAN, list : Seq(Addressed), size : Nat]
    /\ active_archivers \in Seq(Addressed)
    /\ pc \in {"idle", "collect"}
    /\ base \in Seq(Addressed)
    /\ asked \subseteq 1..Len(base)
    /\ tmp \in Seq(Archiver)
    /\ writes \subseteq [id : 1..MaxWrites, stage : {"create", "write"}, list : Seq(Addressed)]
    /\ crashes \in 0..MaxCrashes
    /\ reported \subseteq Archiver
    /\ latest \in Seq(Addressed) \cup {None}
    /\ cut \in BOOLEAN

\* A call publishes exactly the archivers of the lists that verified: dropping
\* duplicates loses nobody, and nobody else gets in (discover, steps 3 to 6).
PublishesWhatVerified ==
    [][pc = "collect" /\ pc' = "idle" /\ crashes' = crashes
         => Keys(active_archivers') = {a.publicKey : a \in reported}]_vars

\* Entry i of the seed file comes right behind another entry of its key.
BehindItsKey(i) ==
    \/ i > 1 /\ Seeds[i - 1].publicKey = Seeds[i].publicKey
    \/ i = 1 /\ cache.list # <<>> /\ cache.list[Len(cache.list)].publicKey = Seeds[1].publicKey

\* Whatever has become of the cache file, and of a write to it that overtook
\* or was overtaken, a call asks an archiver of every seed's key, and asks it at the
\* seed's own address except where dedup_by drops the seed for the entry before it:
\* a cached one with its key, which may have another address.  So the network is
\* found again after every archiver failed once, or after a crash.
SeedsAreAsked ==
    [][pc = "idle" /\ pc' = "collect" =>
          \A i \in 1..Len(Seeds) :
              /\ Seeds[i].publicKey \in Keys(base')
              /\ BehindItsKey(i) \/ Seeds[i] \in Range(base')]_vars

\* What the next call, or the next process, finds in the cache file is the list
\* published last, replacement addresses and all, unless writes overlapped or a
\* crash ended one: a shorter list leaves nothing of a longer one behind.
CacheIsLatest ==
    latest # None /\ writes = {} /\ ~cut => cache = File(latest)

\* "Deduplicate the archiver list by public key" (doc of discover).
KeysAreUnique ==
    \A i, j \in 1..Len(active_archivers) :
        active_archivers[i].publicKey = active_archivers[j].publicKey => i = j
=============================================================================
