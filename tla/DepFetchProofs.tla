--------------------------- MODULE DepFetchProofs ---------------------------
(***************************************************************************)
(* What is proved of DepFetch for any number of calls, sources and files:  *)
(* as long as calls come one at a time, a returned path is whole, stays    *)
(* so, and so is what the search cache holds of it.                        *)
(***************************************************************************)
EXTENDS DepFetch, TLAPS

(* The stages of a call that has cleared the directory and not yet ended,  *)
(* and those of them in which it has written nothing.                      *)
Empty   == {"download", "clone"}
Filling == {"extract", "write"}
Fetching == {"clear", "clean"} \cup Empty \cup Filling

Alone == \A c, d \in Busy : c = d

(* What a call has in the directory at each stage.                         *)
Stage(c) ==
  /\ pc[c] = "check" => Settled
  /\ pc[c] \in {"idle", "check", "clear"} \cup Empty => written[c] = {}
  /\ pc[c] \in {"clear"} \cup Empty => dir = {}
  /\ pc[c] \in Filling => dir = {source[c]} \X written[c]
  /\ pc[c] \in Fetching => \A d \in Calls : ~Returned(d)

FetchInv ==
  ~overlap => Alone /\ (\A c \in Calls : Stage(c)) /\ NothingHalfDone
                /\ PathStaysWhole /\ SearchSeesWhole

-----------------------------------------------------------------------------
(* The calls and the directory keep their types.                           *)
LEMMA FetchTypes == (Init => TypeOK) /\ (TypeOK /\ [Next]_vars => TypeOK')
<1>1. Init => TypeOK BY DEF Init, TypeOK
<1>2. TypeOK /\ [Next]_vars => TypeOK'
  <2> SUFFICES ASSUME TypeOK, [Next]_vars PROVE TypeOK' OBVIOUS
  <2> USE DEF TypeOK, GoTo, Working
  <2>1. CASE UNCHANGED vars BY <2>1 DEF vars
  <2>2. CASE Search BY <2>2 DEF Search
  <2>3. CASE Expire BY <2>3 DEF Expire
  <2>4. ASSUME NEW c \in Calls, Start(c) PROVE TypeOK' BY <2>4 DEF Start
  <2>5. ASSUME NEW c \in Calls, CallStep(c) PROVE TypeOK'
    <3>1. CASE Reuse(c) \/ FetchAnew(c) BY <3>1 DEF Reuse, FetchAnew
    <3>2. CASE Clear(c) BY <3>2 DEF Clear
    <3>3. CASE Download(c) \/ ExtractFails(c) BY <3>3 DEF Download, ExtractFails
    <3>4. ASSUME WriteFile(c), UNCHANGED source
          PROVE  /\ dir' \subseteq AllFiles /\ written' \in [Calls -> SUBSET Int]
                 /\ \A d \in Calls : written'[d] \subseteq FilesOf(source'[d])
      BY <3>4, DepAssumption DEF WriteFile, Left, AllFiles, Whole, FilesOf
    <3>5. CASE Extract(c) BY <3>4, <3>5 DEF Extract
    <3>6. CASE Clone(c) BY <3>6 DEF Clone
    <3>7. CASE Checkout(c) BY <3>4, <3>7 DEF Checkout
    <3>8. CASE CheckoutFails(c) BY <3>8 DEF CheckoutFails
    <3>9. CASE CleanUp(c) \/ Return(c) BY <3>9 DEF CleanUp, Return
    <3> QED
      BY <2>5, <3>1, <3>2, <3>3, <3>5, <3>6, <3>7, <3>8, <3>9 DEF CallStep
  <2> QED BY <2>1, <2>2, <2>3, <2>4, <2>5 DEF Next
<1> QED BY <1>1, <1>2

(* No source is empty.                                                     *)
LEMMA SourceHasFiles ==
  ASSUME NEW s \in Sources
  PROVE  Whole(s) # {}
<1>1. NFiles[s] \in Nat /\ NFiles[s] >= 1 BY DepAssumption
<1>2. 1 \in FilesOf(s) BY <1>1 DEF FilesOf
<1>3. <<s, 1>> \in Whole(s) BY <1>2 DEF Whole
<1> QED BY <1>3
LEMMA FetchStarts == Init => FetchInv
<1> SUFFICES ASSUME Init PROVE FetchInv OBVIOUS
<1>1. Busy = {} BY DEF Init, Busy, Working
<1>2. \A c \in Calls : Stage(c) /\ ~Returned(c)
  BY DEF Init, Stage, Empty, Filling, Fetching, Returned
<1> QED BY <1>1, <1>2
        DEF Init, FetchInv, Alone, NothingHalfDone, Settled, PathStaysWhole, SearchSeesWhole

(* A step of a call that is at work: the others are not, and wait.         *)
LEMMA CallStepKeeps ==
  ASSUME TypeOK, TypeOK', FetchInv, NEW c \in Calls, CallStep(c)
  PROVE  FetchInv'
<1> SUFFICES ASSUME ~overlap' PROVE FetchInv' BY DEF FetchInv
<1>1. pc[c] \in Working /\ c \in Busy
  BY DEF CallStep, Reuse, FetchAnew, Clear, Download, Extract, ExtractFails, Clone,
         Checkout, CheckoutFails, CleanUp, Return, GoTo, Working, Busy
<1>2. ~overlap /\ overlap' = overlap /\ source' = source /\ cached' = cached
  BY DEF CallStep, Reuse, FetchAnew, Clear, Download, Extract, ExtractFails, Clone,
         Checkout, CheckoutFails, CleanUp, Return, GoTo
<1>3. /\ \A d \in Calls \ {c} : pc[d] \in {"idle", "returned", "failed"}
      /\ Stage(c) /\ PathStaysWhole /\ SearchSeesWhole
  BY <1>1, <1>2 DEF FetchInv, Alone, Busy, TypeOK
<1>4. \A d \in Calls \ {c} : pc'[d] = pc[d] /\ written'[d] = written[d] /\ seen'[d] = seen[d]
  BY DEF CallStep, Reuse, FetchAnew, Clear, Download, Extract, ExtractFails, Clone,
         Checkout, CheckoutFails, CleanUp, Return, GoTo, TypeOK, WriteFile
<1>5. \A d \in Calls \ {c} : Stage(d)'
  BY <1>2, <1>3, <1>4 DEF FetchInv, Stage, Empty, Filling, Fetching
<1>6. Alone' BY <1>3, <1>4 DEF Alone, Busy, Working
<1>7. SearchSeesWhole' BY <1>2, <1>3 DEF SearchSeesWhole
<1>8. ASSUME \A d \in Calls : ~Returned(d), pc'[c] # "returned" PROVE PathStaysWhole'
  BY <1>4, <1>8 DEF PathStaysWhole, Returned
<1>9. ASSUME pc'[c] \in Working PROVE NothingHalfDone'
  BY <1>9 DEF NothingHalfDone, Busy
<1> DEFINE Kept == Stage(c)' /\ NothingHalfDone' /\ PathStaysWhole'
<1> USE DEF GoTo, TypeOK
<1>10. ASSUME Reuse(c) PROVE Kept
  <2>1. PICK s \in Sources : dir = Whole(s)
    BY <1>3, <1>10 DEF Reuse, NotEmpty, Stage, Settled
  <2>2. pc'[c] = "returned" /\ dir' = dir /\ seen'[c] = dir BY <1>10 DEF Reuse
  <2>3. NothingHalfDone' BY <2>1, <2>2 DEF NothingHalfDone, Settled
  <2>4. PathStaysWhole' BY <1>2, <1>3, <1>4, <2>1, <2>2 DEF PathStaysWhole, Returned
  <2> QED BY <2>2, <2>3, <2>4 DEF Stage, Empty, Filling, Fetching
<1>11. ASSUME FetchAnew(c) PROVE Kept
  <2>1. pc[c] = "check" /\ pc'[c] = "clear" /\ dir' = {} /\ dir = {} /\ written' = written
    BY <1>11 DEF FetchAnew, NotEmpty
  <2>2. \A d \in Calls : ~Returned(d)
    BY <1>2, <1>3, <2>1, SourceHasFiles DEF PathStaysWhole
  <2>3. Stage(c)'
    BY <1>3, <1>4, <2>1, <2>2 DEF Stage, Empty, Filling, Fetching, Returned
  <2> QED BY <1>8, <1>9, <2>1, <2>2, <2>3 DEF Working
<1>12. ASSUME pc[c] \in Fetching, pc'[c] # "returned", pc'[c] # "check"
       PROVE  (\A d \in Calls : ~Returned(d) /\ ~Returned(d)') /\ PathStaysWhole'
  BY <1>3, <1>4, <1>8, <1>12 DEF Stage, Returned
<1>13. ASSUME Clear(c) PROVE Kept
  <2>1. pc[c] = "clear" /\ pc'[c] \in Empty \cup {"failed"} /\ dir' = {} /\ written' = written
    BY <1>13 DEF Clear, Empty
  <2> QED
    BY <1>3, <1>12, <2>1 DEF Stage, Empty, Filling, Fetching, NothingHalfDone, Settled
<1>14. ASSUME Download(c) \/ ExtractFails(c) PROVE Kept
  <2>1. /\ pc[c] \in {"download", "extract"} /\ pc'[c] \in {"extract", "clean"}
        /\ pc[c] = "extract" => pc'[c] = "clean"
        /\ dir' = dir /\ written' = written
    BY <1>14 DEF Download, ExtractFails
  <2> QED
    BY <1>2, <1>3, <1>9, <1>12, <2>1 DEF Stage, Empty, Filling, Fetching, Working
<1>15. ASSUME WriteFile(c), pc[c] \in Filling
       PROVE  dir' = {source[c]} \X written'[c]
  BY <1>3, <1>15 DEF WriteFile, Stage
<1>16. ASSUME Extract(c) \/ Checkout(c) PROVE Kept
  <2>1. WriteFile(c) /\ pc[c] \in Filling /\ pc'[c] \in Filling \cup {"clean"}
    BY <1>16 DEF Extract, Checkout, Filling
  <2> QED
    BY <1>2, <1>9, <1>12, <1>15, <2>1 DEF Stage, Empty, Filling, Fetching, Working
<1>17. ASSUME Clone(c) PROVE Kept
  <2>1. /\ pc[c] = "clone" /\ pc'[c] \in {"write", "clone", "clean"}
        /\ written' = written /\ dir' \in {dir, {}}
    BY <1>17 DEF Clone
  <2> QED
    BY <1>2, <1>3, <1>9, <1>12, <2>1 DEF Stage, Empty, Filling, Fetching, Working
<1>18. ASSUME CheckoutFails(c) PROVE Kept
  <2>1. /\ pc[c] = "write"
        /\ \/ pc'[c] = "clone" /\ dir' = {} /\ written'[c] = {}
           \/ pc'[c] = "clean"
    BY <1>18 DEF CheckoutFails
  <2> QED
    BY <1>2, <1>9, <1>12, <2>1 DEF Stage, Empty, Filling, Fetching, Working
<1>19. ASSUME CleanUp(c) PROVE Kept
  <2>1. pc[c] = "clean" /\ pc'[c] = "failed" /\ dir' = {} BY <1>19 DEF CleanUp
  <2> QED
    BY <1>12, <2>1 DEF Stage, Empty, Filling, Fetching, NothingHalfDone, Settled
<1>20. ASSUME Return(c) PROVE Kept
  <2>1. /\ pc[c] \in Filling /\ pc'[c] = "returned" /\ Left(c) = {}
        /\ dir' = dir /\ seen'[c] = dir
    BY <1>20 DEF Return, Filling
  <2>2. written[c] = FilesOf(source[c]) /\ source[c] \in Sources BY <2>1 DEF Left
  <2>3. dir = Whole(source[c]) BY <1>3, <2>1, <2>2 DEF Stage, Whole
  <2>4. \A d \in Calls : ~Returned(d) BY <1>3, <2>1 DEF Stage, Fetching
  <2>5. PathStaysWhole' BY <1>4, <2>1, <2>2, <2>3, <2>4 DEF PathStaysWhole, Returned
  <2> QED
    BY <2>1, <2>2, <2>3, <2>5 DEF Stage, Empty, Filling, Fetching, NothingHalfDone, Settled
<1>21. Kept
  BY <1>10, <1>11, <1>13, <1>14, <1>16, <1>17, <1>18, <1>19, <1>20 DEF CallStep
<1>22. \A d \in Calls : Stage(d)' BY <1>5, <1>21
<1> QED BY <1>6, <1>7, <1>21, <1>22 DEF FetchInv

-----------------------------------------------------------------------------
(* Every action preserves the invariant.                                   *)
LEMMA FetchStep == TypeOK /\ TypeOK' /\ FetchInv /\ [Next]_vars => FetchInv'
<1> SUFFICES ASSUME TypeOK, TypeOK', FetchInv, [Next]_vars, ~overlap'
             PROVE  FetchInv'
  BY DEF FetchInv
<1>1. CASE UNCHANGED vars
  BY <1>1 DEF vars, FetchInv, Alone, Busy, Stage, Returned, NothingHalfDone, Settled,
              PathStaysWhole, SearchSeesWhole
<1>2. CASE Search
  <2>1. PICK c \in Calls : Returned(c) BY <1>2 DEF Search
  <2>2. overlap' = overlap /\ cached' = {dir} /\ UNCHANGED <<dir, pc, source, written, seen>>
    BY <1>2 DEF Search
  <2>3. PICK s \in Sources : dir = Whole(s)
    BY <2>1, <2>2 DEF FetchInv, PathStaysWhole
  <2>4. SearchSeesWhole' BY <2>2, <2>3 DEF SearchSeesWhole
  <2> QED
    BY <2>2, <2>4 DEF FetchInv, Alone, Busy, Stage, Returned, NothingHalfDone, Settled,
                      PathStaysWhole
<1>3. CASE Expire
  <2>1. overlap' = overlap /\ cached' = {} /\ UNCHANGED <<dir, pc, source, written, seen>>
    BY <1>3 DEF Expire
  <2>2. SearchSeesWhole' BY <2>1 DEF SearchSeesWhole
  <2> QED
    BY <2>1, <2>2 DEF FetchInv, Alone, Busy, Stage, Returned, NothingHalfDone, Settled,
                      PathStaysWhole
<1>4. ASSUME NEW c \in Calls, Start(c) PROVE FetchInv'
  <2>1. /\ ~overlap /\ Busy = {} /\ pc[c] = "idle" /\ pc' = [pc EXCEPT ![c] = "check"]
        /\ UNCHANGED <<dir, source, written, seen, cached>>
    BY <1>4 DEF Start, GoTo
  <2>2. Settled BY <2>1 DEF FetchInv, NothingHalfDone
  <2>3. \A d \in Calls \ {c} : pc[d] \in {"idle", "returned", "failed"} /\ pc'[d] = pc[d]
    BY <2>1 DEF Busy, TypeOK
  <2>4. pc'[c] = "check" BY <2>1 DEF TypeOK
  <2>5. Alone' /\ Busy' # {} BY <2>3, <2>4 DEF Alone, Busy, Working
  <2>6. Settled' BY <2>1, <2>2 DEF Settled
  <2>7. \A d \in Calls : Stage(d)'
    BY <2>1, <2>3, <2>4, <2>6 DEF FetchInv, Stage, Empty, Filling, Fetching
  <2>8. PathStaysWhole' /\ SearchSeesWhole'
    BY <2>1, <2>3, <2>4 DEF FetchInv, PathStaysWhole, SearchSeesWhole, Returned
  <2> QED BY <2>5, <2>7, <2>8 DEF FetchInv, NothingHalfDone
<1>5. ASSUME NEW c \in Calls, CallStep(c) PROVE FetchInv'
  BY <1>5, CallStepKeeps
<1> QED BY <1>1, <1>2, <1>3, <1>4, <1>5 DEF Next

(* The invariant holds throughout.                                         *)
LEMMA FetchInvariant == Spec => []FetchInv
<1>1. Init => TypeOK /\ FetchInv BY FetchTypes, FetchStarts
<1>2. TypeOK /\ FetchInv /\ [Next]_vars => TypeOK' /\ FetchInv'
  BY FetchTypes, FetchStep
<1> QED BY <1>1, <1>2, PTL DEF Spec

(* Calls and directory keep their types, for any number of calls, sources  *)
(* and files.                                                              *)
THEOREM TypeCorrect == Spec => []TypeOK
<1> QED BY FetchTypes, PTL DEF Spec

(* The path of a call is one source, whole, and stays so, whatever later   *)
(* calls, one at a time, do or fail at.                                    *)
THEOREM PathIsKept == Spec => []PathStaysWhole
<1>1. FetchInv => PathStaysWhole BY DEF FetchInv, PathStaysWhole
<1> QED BY <1>1, FetchInvariant, PTL

(* A call that fails alone leaves nothing a later one could reuse.         *)
THEOREM FailureLeavesNothing == Spec => []NothingHalfDone
<1>1. FetchInv => NothingHalfDone BY DEF FetchInv, NothingHalfDone
<1> QED BY <1>1, FetchInvariant, PTL

(* What the cache answers about a returned path is about all of it.        *)
THEOREM CacheSeesWhole == Spec => []SearchSeesWhole
<1>1. FetchInv => SearchSeesWhole BY DEF FetchInv, SearchSeesWhole
<1> QED BY <1>1, FetchInvariant, PTL
=============================================================================
