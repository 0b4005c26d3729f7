------------------------------ MODULE DepFetch ------------------------------
(***************************************************************************)
(* fetch_dependency_source calls that share one destination directory      *)
(* under <tool output>/deps, and the lang_* searches of that directory,    *)
(* whose results the server caches (tools/mcp-server/src: dep_tools.go,    *)
(* tool_cache.go, lang.go).  The server runs each call in a goroutine of   *)
(* its own and nothing locks the directory.                                *)
(*                                                                         *)
(* The directory is the set of the files in it, each with the source it    *)
(* came from; an empty directory and a missing one are the same to every   *)
(* caller.  File 0 stands for the .git of a clone.  Which addresses may be *)
(* fetched, and where an archive entry may point, is left out: a refusal   *)
(* is one more way to fail.                                                *)
(***************************************************************************)
EXTENDS Integers, FiniteSets

CONSTANTS
  Calls,      \* calls of the tool
  Archives,   \* sources fetched as an archive
  Repos,      \* sources fetched with git
  Parallel,   \* calls in flight at once
  NFiles,     \* source -> how many files it has
  MaxEntries  \* maxExtractEntries

Sources == Archives \cup Repos

ASSUME DepAssumption ==
  /\ Parallel \in Nat \ {0} /\ MaxEntries \in Nat
  /\ NFiles \in [Sources -> Nat \ {0}]
  /\ Archives \cap Repos = {}

FilesOf(s) == (IF s \in Repos THEN 0 ELSE 1)..NFiles[s]
Whole(s)   == {s} \X FilesOf(s)
AllFiles   == UNION {Whole(s) : s \in Sources}

VARIABLES
  dir,      \* what is in the destination directory
  pc,       \* where each call is
  source,   \* the source it was asked for
  written,  \* the files it has written, whether or not they are still there
  retried,  \* has gitFetch gone to its fallback?
  seen,     \* what was in the directory when the call returned its path
  cached,   \* the cached result of a search, what it saw; none is {}
  overlap   \* have two calls ever been in flight together?

vars == <<dir, pc, source, written, retried, seen, cached, overlap>>

Working == {"check", "clear", "download", "extract", "clone", "write", "clean"}
Busy    == {c \in Calls : pc[c] \in Working}
Returned(c) == pc[c] = "returned"

GoTo(c, from, to) == pc[c] = from /\ pc' = [pc EXCEPT ![c] = to]

-----------------------------------------------------------------------------
(* Forms some definitions below would take under a slip in the code.       *)
KeepOnFailure(c) ==
  /\ GoTo(c, "clean", "failed")
  /\ UNCHANGED <<dir, source, written, retried, seen, cached, overlap>>
AlwaysAnew     == FALSE
RetryAgain(c) ==
  /\ GoTo(c, "write", "clone")
  /\ dir' = {} /\ written' = [written EXCEPT ![c] = {}]
  /\ UNCHANGED <<source, retried, seen, cached, overlap>>
-----------------------------------------------------------------------------
Init ==
  /\ dir = {} /\ pc = [c \in Calls |-> "idle"]
  /\ source \in [Calls -> Sources]
  /\ written = [c \in Calls |-> {}] /\ retried = [c \in Calls |-> FALSE]
  /\ seen = [c \in Calls |-> {}]
  /\ cached = {} /\ overlap = FALSE

Start(c) ==
  /\ Cardinality(Busy) < Parallel
  /\ GoTo(c, "idle", "check")
  /\ overlap' = (overlap \/ Busy # {})
  /\ UNCHANGED <<dir, source, written, retried, seen, cached>>

(* os.Stat and dirNotEmpty.                                                *)
NotEmpty == dir # {}

Reuse(c) ==
  /\ NotEmpty
  /\ GoTo(c, "check", "returned")
  /\ seen' = [seen EXCEPT ![c] = dir]
  /\ UNCHANGED <<dir, source, written, retried, cached, overlap>>

FetchAnew(c) ==
  /\ ~NotEmpty
  /\ GoTo(c, "check", "clear")
  /\ UNCHANGED <<dir, source, written, retried, seen, cached, overlap>>

(* os.RemoveAll, and for an archive os.MkdirAll, which may fail.           *)
Clear(c) ==
  /\ \/ source[c] \in Archives /\ GoTo(c, "clear", "download")
     \/ source[c] \in Archives /\ GoTo(c, "clear", "failed")
     \/ source[c] \in Repos /\ GoTo(c, "clear", "clone")
  /\ dir' = {}
  /\ UNCHANGED <<source, written, retried, seen, cached, overlap>>

-----------------------------------------------------------------------------
(* An archive is downloaded beside the directory, then extracted into it   *)
(* file by file.                                                           *)

Download(c) ==
  /\ GoTo(c, "download", "extract") \/ GoTo(c, "download", "clean")
  /\ UNCHANGED <<dir, source, written, retried, seen, cached, overlap>>

Left(c) == FilesOf(source[c]) \ written[c]

WriteFile(c) ==
  \E f \in Left(c) :
    /\ \A g \in Left(c) : f <= g
    /\ dir' = dir \cup {<<source[c], f>>}
    /\ written' = [written EXCEPT ![c] = @ \cup {f}]

(* budget.add, after the file is written.                                  *)
OverBudget(n) == n > MaxEntries

Extract(c) ==
  /\ WriteFile(c)
  /\ IF OverBudget(Cardinality(written'[c])) THEN GoTo(c, "extract", "clean")
     ELSE pc[c] = "extract" /\ UNCHANGED pc
  /\ UNCHANGED <<source, retried, seen, cached, overlap>>

(* A bad archive, an unsafe entry, a full disk.                            *)
ExtractFails(c) ==
  /\ GoTo(c, "extract", "clean")
  /\ UNCHANGED <<dir, source, written, retried, seen, cached, overlap>>

-----------------------------------------------------------------------------
(* git clone wants an empty directory; the fallback for a commit id makes  *)
(* one first, then runs init, fetch and checkout in it.                    *)

Clone(c) ==
  /\ \/ ~NotEmpty /\ GoTo(c, "clone", "write") /\ UNCHANGED <<dir, retried>>
     \/ ~retried[c] /\ pc[c] = "clone" /\ UNCHANGED pc
        /\ dir' = {} /\ retried' = [retried EXCEPT ![c] = TRUE]
     \/ GoTo(c, "clone", "clean") /\ UNCHANGED <<dir, retried>>
     \/ retried[c] /\ GoTo(c, "clone", "write") /\ UNCHANGED <<dir, retried>>
  /\ UNCHANGED <<source, written, seen, cached, overlap>>

(* git writes its own files, then the working tree; without its own files  *)
(* it stops.                                                               *)
GitAlive(c) == written[c] = {} \/ <<source[c], 0>> \in dir

Checkout(c) ==
  /\ GitAlive(c)
  /\ pc[c] = "write" /\ WriteFile(c) /\ UNCHANGED pc
  /\ UNCHANGED <<source, retried, seen, cached, overlap>>

(* A clone that fails leaves nothing of its own; its caller may fall back. *)
CheckoutFails(c) ==
  /\ \/ ~retried[c] /\ GoTo(c, "write", "clone") /\ dir' = {}
        /\ retried' = [retried EXCEPT ![c] = TRUE]
        /\ written' = [written EXCEPT ![c] = {}]
     \/ GoTo(c, "write", "clean") /\ UNCHANGED <<dir, retried, written>>
  /\ UNCHANGED <<source, seen, cached, overlap>>

-----------------------------------------------------------------------------
(* os.RemoveAll(destRoot) of a call that failed.                           *)
CleanUp(c) ==
  /\ GoTo(c, "clean", "failed")
  /\ dir' = {}
  /\ UNCHANGED <<source, written, retried, seen, cached, overlap>>

Return(c) ==
  /\ Left(c) = {}
  /\ GoTo(c, "extract", "returned") \/ (GitAlive(c) /\ GoTo(c, "write", "returned"))
  /\ seen' = [seen EXCEPT ![c] = dir]
  /\ UNCHANGED <<dir, source, written, retried, cached, overlap>>

-----------------------------------------------------------------------------
(* cachedJSON around runAstGrep, for a path some call has returned: the    *)
(* key holds the path and not what is in it.  A hit changes nothing.       *)
Search ==
  /\ \E c \in Calls : Returned(c)
  /\ cached = {} /\ cached' = {dir}
  /\ UNCHANGED <<dir, pc, source, written, retried, seen, overlap>>

(* The entry's 12 hours are over.                                          *)
Expire ==
  /\ cached # {} /\ cached' = {}
  /\ UNCHANGED <<dir, pc, source, written, retried, seen, overlap>>

-----------------------------------------------------------------------------
CallStep(c) ==
  \/ Reuse(c) \/ FetchAnew(c) \/ Clear(c)
  \/ Download(c) \/ Extract(c) \/ ExtractFails(c)
  \/ Clone(c) \/ Checkout(c) \/ CheckoutFails(c)
  \/ CleanUp(c) \/ Return(c)

Next ==
  \/ \E c \in Calls : Start(c) \/ CallStep(c)
  \/ Search
  \/ Expire

Spec == Init /\ [][Next]_vars

(* A call that has begun runs on: depFetchTimeout ends every wait.         *)
FairSpec == Spec /\ \A c \in Calls : WF_vars(CallStep(c))

-----------------------------------------------------------------------------
TypeOK ==
  /\ dir \subseteq AllFiles
  /\ pc \in [Calls -> Working \cup {"idle", "returned", "failed"}]
  /\ source \in [Calls -> Sources]
  /\ written \in [Calls -> SUBSET Int]
  /\ \A c \in Calls : written[c] \subseteq FilesOf(source[c])
  /\ retried \in [Calls -> BOOLEAN]
  /\ seen \in [Calls -> SUBSET AllFiles]
  /\ overlap \in BOOLEAN
  /\ cached = {} \/ \E r \in SUBSET AllFiles : cached = {r}

(* While calls come one at a time, the path a call returns leads to one    *)
(* source, whole, and it stays so whatever later calls do or fail at.      *)
PathStaysWhole ==
  ~overlap => \A c \in Calls : Returned(c) =>
    (\E s \in Sources : seen[c] = Whole(s)) /\ dir = seen[c]

(* Nothing there, or all of one source.                                    *)
Settled == dir = {} \/ \E s \in Sources : dir = Whole(s)

(* A call that fails alone, at whatever point, leaves nothing that a later *)
(* one could take for the source: between calls the directory is empty or  *)
(* whole.                                                                  *)
NothingHalfDone ==
  ~overlap /\ Busy = {} => Settled

(* With calls one at a time, a search of a returned path sees all of it,   *)
(* and so does everyone the cache then answers.                            *)
SearchSeesWhole == ~overlap => \A r \in cached : \E s \in Sources : r = Whole(s)

(* A call that has begun ends, with a path or an error.                    *)
CallsEnd == \A c \in Calls : pc[c] = "check" ~> pc[c] \in {"returned", "failed"}

-----------------------------------------------------------------------------
(* dep_tools.go:178: fetchDependency "places the dependency source under   *)
(* destRoot and returns the fetch mode and the host path of the source     *)
(* root to analyze"; what it reuses is whole.                              *)
ReturnedIsWhole ==
  \A c \in Calls : Returned(c) => \E s \in Sources : Whole(s) \subseteq seen[c]
=============================================================================
