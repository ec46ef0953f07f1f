---------------------------- MODULE CensusProofs ----------------------------
(***************************************************************************)
(* What a census keeps, for every value of the constants.                  *)
(*                                                                         *)
(* The first part is about one sample (Recorder): a closed bitmap is       *)
(* final, and a seal vouches for what ran before it.  The second is about  *)
(* the walk over all tests (Census): every place of the queue is one test  *)
(* of one binary, and what the census knows of a binary is exact.          *)
(***************************************************************************)
EXTENDS Recorder, Census, FiniteSetTheorems, SequenceTheorems, WellFoundedInduction, TLAPS

\* The threads of p that hold a lease.
Holders(p) == {t \in Threads : Home[t] = p /\ at[t] \in {"leased", "leaving"}}

\* The lease word counts the leases that are out; closed, none is.
Counted ==
  \A p \in Processes :
    IF lease[p] = Sealing THEN Holders(p) = {} ELSE lease[p] = Cardinality(Holders(p))

\* How far a process is says what it has, and what it has done.
Staged ==
  \A p \in Processes :
    /\ life[p] \in {"writing", "sealed"} => lease[p] = Sealing
    /\ life[p] \in {"closing", "claiming", "writing", "sealed"} => selection[p] = "census"
    /\ life[p] \in {"absent", "running", "closing", "claiming"} => cursor[p] = 1
    /\ life[p] = "sealed" => cursor[p] = Len(Words) + 2
    /\ life[p] = "absent" => ran[p] = {}

\* What ran is in the bitmap, beyond it, or about to be marked by a holder.
Noted ==
  \A p \in Processes : selection[p] = "census" =>
    \A site \in ran[p] :
      \/ site \in reached[p]
      \/ site \in Beyond /\ overflowed[p]
      \/ \E t \in Threads : Home[t] = p /\ at[t] = "leased" /\ site \in want[t]

\* What a handler's cursor has passed is in the file.
Passed(p) ==
  /\ \A i \in DOMAIN Words : i < cursor[p] =>
       \A site \in reached[p] \intersect Words[i] : \E j \in DOMAIN file : site \in file[j].sites
  /\ cursor[p] = Len(Words) + 2 /\ overflowed[p] => \E j \in DOMAIN file : file[j].mark = "overflow"

Written == \A p \in Processes : life[p] \in {"writing", "sealed"} => Passed(p)

\* The seals in the file and the processes that sealed it are one to one.
SealsOf(pos) ==
  /\ \A p \in Processes : life[p] = "sealed" => pos[p] \in DOMAIN file /\ file[pos[p]].mark = "seal"
  /\ \A p, q \in Processes : life[p] = "sealed" /\ life[q] = "sealed" /\ pos[p] = pos[q] => p = q
  /\ \A j \in DOMAIN file : file[j].mark = "seal" =>
       \E p \in Processes : life[p] = "sealed" /\ pos[p] = j

OneSealEach == \E pos \in [Processes -> Nat] : SealsOf(pos)

\* A sample is read when all has ended, and believed as the file then says.
Believed ==
  /\ sampled # Unread => \A p \in Processes : life[p] \notin Alive
  /\ sampled.state = "known" =>
       Whole(file) /\ sampled.sites = UNION {file[i].sites : i \in DOMAIN file}

IInv == /\ TypeOK /\ Counted /\ Staged /\ Noted /\ Written /\ OneSealEach /\ Believed

-----------------------------------------------------------------------------
(* Types.                                                                   *)

\* A closed lease word is none that counts leases.
LEMMA SealingIsNoCount == Sealing \in Nat /\ Sealing > Mask /\ Mask > 0
BY RecorderAssumption DEF Sealing

\* Finitely many threads hold a lease of a process.
LEMMA HoldersAreFinite == \A p : IsFiniteSet(Holders(p))
BY RecorderAssumption, FS_Subset DEF Holders

\* A thread with a lease finds the word counting it, and so not closed.
LEMMA HolderIsCounted ==
  ASSUME TypeOK, Counted, NEW t \in Threads, at[t] \in {"leased", "leaving"}
  PROVE  lease[Home[t]] \in 1 .. Mask
<1> USE RecorderAssumption
<1>1. Home[t] \in Processes /\ t \in Holders(Home[t])
  BY DEF Holders
<1>2. Cardinality(Holders(Home[t])) # 0
  BY <1>1, HoldersAreFinite, FS_EmptySet
<1>3. lease[Home[t]] # Sealing /\ lease[Home[t]] \in 0 .. Sealing
  BY <1>1 DEF Counted, TypeOK
<1> QED
  BY <1>1, <1>2, <1>3, SealingIsNoCount DEF Counted, Sealing

\* Everything a handler appends is a write the tool can read.
LEMMA ChunksAreTyped ==
  /\ \A sites \in SUBSET Within : Records(sites) \in Chunk
  /\ \A mark \in {"none", "overflow", "seal", "torn"} : Marker(mark) \in Chunk
BY DEF Records, Marker, Chunk

\* A write to the file is one of its chunks.
LEMMA WritesAreTyped ==
  ASSUME file \in Seq(Chunk), NEW chunk \in Chunk
  PROVE  Append(file, chunk) \in Seq(Chunk)
OBVIOUS

Lives == {"absent", "running", "closing", "claiming", "writing", "sealed", "failed", "quit", "killed"}

\* A process is absent, alive or ended.
LEMMA LivesAre == Lives = {"absent"} \union Alive \union Ended
BY DEF Lives, Alive, Ended

\* Every step of a process leaves it in one of its stages.
LEMMA LifeStep ==
  ASSUME life \in [Processes -> Lives], NEW p \in Processes,
         \/ Spawn(p) \/ Exit(p) \/ Quit(p) \/ Kill(p) \/ TryBeginSeal(p) \/ Claim(p)
         \/ WriteSeal(p) \/ WriteFails(p)
  PROVE  life' \in [Processes -> Lives]
<1>1. \A l \in Lives : [life EXCEPT ![p] = l] \in [Processes -> Lives]
  OBVIOUS
<1>2. PICK l \in Lives : life' = [life EXCEPT ![p] = l] \/ life' = life
  BY DEF Spawn, Exit, Quit, Kill, TryBeginSeal, Claim, WriteSeal, WriteFails, Lives
<1> QED
  BY <1>1, <1>2

\* What a file says is an answer of a sample.
LEMMA DecodeIsTyped ==
  ASSUME file \in Seq(Chunk)
  PROVE  /\ Decode(file).state \in {"known", "unknown"}
         /\ Decode(file) \in [state : {"unread", "unknown", "known"}, sites : SUBSET Within]
<1>1. \A i \in DOMAIN file : file[i].sites \subseteq Within
  <2>1. ASSUME NEW i \in DOMAIN file PROVE file[i] \in Chunk
    BY <2>1
  <2> QED
    BY <2>1 DEF Chunk
<1>2. UNION {file[i].sites : i \in DOMAIN file} \subseteq Within
  BY <1>1
<1> QED
  BY <1>2 DEF Decode, Known, Unknown

\* The types hold at the start.
LEMMA TypeInit == Init => TypeOK
BY RecorderAssumption, BitmapAssumption, SealingIsNoCount
   DEF Init, TypeOK, Alive, Ended, Unread, Chunk

\* The types, action by action.
LEMMA TypeStep == TypeOK /\ Counted /\ [Next]_vars => TypeOK'
<1> SUFFICES ASSUME TypeOK, Counted, [Next]_vars PROVE TypeOK'
  OBVIOUS
<1> USE RecorderAssumption, BitmapAssumption, SealingIsNoCount DEF TypeOK, process, bitmap, thread
<1>1. ASSUME NEW t \in Threads, NEW site \in Code[t], Guard(t, site) PROVE TypeOK'
  <2>1. site \in Site
    OBVIOUS
  <2>2. left' \in [Threads -> 0 .. Notes]
    BY <1>1 DEF Guard
  <2>3. at' \in [Threads -> {"user", "loading", "swapping", "leased", "leaving"}]
    BY ZenonT(40), <1>1 DEF Guard
  <2>4. want' \in [Threads -> SUBSET Site] /\ ran' \in [Processes -> SUBSET Site]
    <3>1. [want EXCEPT ![t] = {site}] \in [Threads -> SUBSET Site]
      BY <2>1
    <3>2. [ran EXCEPT ![Home[t]] = @ \union {site}] \in [Processes -> SUBSET Site]
      BY <2>1
    <3> QED
      BY <1>1, <3>1, <3>2 DEF Guard
  <2> QED
    BY <1>1, <2>2, <2>3, <2>4 DEF Guard
<1>2. ASSUME NEW t \in Threads, Load(t) PROVE TypeOK'
  <2>1. lease[Home[t]] \in 0 .. Mask - 1
    BY <1>2 DEF Load, Closed, Sealing
  <2> QED
    BY <1>2, <2>1 DEF Load
<1>3. ASSUME NEW t \in Threads, Refused(t) PROVE TypeOK'
  <2>1. ran' \in [Processes -> SUBSET Site]
    BY <1>3 DEF Refused, Ran
  <2> QED
    BY <1>3, <2>1 DEF Refused
<1>4. ASSUME NEW t \in Threads, Lease(t) PROVE TypeOK'
  <2>1. lease' \in [Processes -> 0 .. Sealing]
    BY <1>4 DEF Lease, Sealing
  <2>2. ran' \in [Processes -> SUBSET Site]
    BY <1>4 DEF Lease, Ran
  <2>3. at' \in [Threads -> {"user", "loading", "swapping", "leased", "leaving"}] /\ seen' \in [Threads -> 0 .. Mask - 1]
    BY <1>4 DEF Lease
  <2> QED
    BY <1>4, <2>1, <2>2, <2>3 DEF Lease
<1>5. ASSUME NEW t \in Threads, Retry(t) PROVE TypeOK'
  BY SMTT(30), <1>5 DEF Retry
<1>6. ASSUME NEW t \in Threads, Mark(t) PROVE TypeOK'
  <2>1. reached' \in [Processes -> SUBSET Within]
    <3>1. want[t] \subseteq Within =>
            [reached EXCEPT ![Home[t]] = @ \union want[t]] \in [Processes -> SUBSET Within]
      OBVIOUS
    <3> QED
      BY <1>6, <3>1 DEF Mark
  <2>3. overflowed' \in [Processes -> BOOLEAN]
    BY <1>6 DEF Mark
  <2>2. at' \in [Threads -> {"user", "loading", "swapping", "leased", "leaving"}]
    BY <1>6 DEF Mark
  <2> QED
    BY <1>6, <2>1, <2>2, <2>3 DEF Mark
<1>0. life \in [Processes -> Lives]
  BY LivesAre
<1>7. \A chunk \in Chunk : Append(file, chunk) \in Seq(Chunk)
  BY WritesAreTyped
<1>8. ASSUME NEW p \in Processes, Spawn(p) \/ Exit(p) \/ Quit(p) PROVE TypeOK'
  <2>1. life' \in [Processes -> Lives]
    BY <1>8, <1>0, LifeStep
  <2>2. selection' \in [Processes -> {"census", "none"}]
    BY <1>8 DEF Spawn, Exit, Quit
  <2> QED
    BY <1>8, <2>1, <2>2, LivesAre DEF Spawn, Exit, Quit
<1>9. ASSUME NEW p \in Processes, Kill(p) PROVE TypeOK'
  <2>1. life' \in [Processes -> Lives]
    BY <1>9, <1>0, LifeStep
  <2>2. file' \in Seq(Chunk)
    BY <1>9, <1>7, ChunksAreTyped DEF Kill
  <2> QED
    BY <1>9, <2>1, <2>2, LivesAre DEF Kill
<1>10. ASSUME NEW p \in Processes, TryBeginSeal(p) \/ Claim(p) PROVE TypeOK'
  <2>1. life' \in [Processes -> Lives]
    BY <1>10, <1>0, LifeStep
  <2>2. lease' \in [Processes -> 0 .. Sealing]
    BY <1>10, Sealing \in 0 .. Sealing DEF TryBeginSeal, Claim
  <2> QED
    BY <1>10, <2>1, <2>2, LivesAre DEF TryBeginSeal, Claim
<1>11. ASSUME NEW p \in Processes, WriteWord(p) PROVE TypeOK'
  <2>1. cursor' \in [Processes -> 1 .. Len(Words) + 2]
    BY <1>11 DEF WriteWord
  <2>2. file' \in Seq(Chunk)
    <3>1. reached[p] \intersect Words[cursor[p]] \in SUBSET Within
      OBVIOUS
    <3> QED
      BY <1>11, <3>1, ChunksAreTyped DEF WriteWord
  <2> QED
    BY <1>11, <2>1, <2>2 DEF WriteWord
<1>12. ASSUME NEW p \in Processes, WriteOverflow(p) \/ WriteSeal(p) \/ WriteFails(p) PROVE TypeOK'
  <2>1. life' \in [Processes -> Lives]
    BY <1>12, <1>0, LifeStep DEF WriteOverflow
  <2>2. file' \in Seq(Chunk)
    <3>1. \A mark \in {"overflow", "seal", "torn"} : Append(file, Marker(mark)) \in Seq(Chunk)
      BY <1>7, ChunksAreTyped
    <3>2. \/ file' = file
          \/ \E mark \in {"overflow", "seal", "torn"} : file' = Append(file, Marker(mark))
      BY <1>12 DEF WriteOverflow, WriteSeal, WriteFails
    <3> QED
      BY <3>1, <3>2
  <2>3. cursor' \in [Processes -> 1 .. Len(Words) + 2]
    BY <1>12 DEF WriteOverflow, WriteSeal, WriteFails
  <2> QED
    BY <1>12, <2>1, <2>2, <2>3, LivesAre DEF WriteOverflow, WriteSeal, WriteFails
<1>13. CASE Sample
  <2>1. Unknown \in [state : {"unread", "unknown", "known"}, sites : SUBSET Within]
    BY DEF Unknown
  <2>2. sampled' \in [state : {"unread", "unknown", "known"}, sites : SUBSET Within]
    BY <1>13, <2>1, DecodeIsTyped DEF Sample
  <2> QED
    BY <1>13, <2>2 DEF Sample, Alive, Ended
<1>14. ASSUME NEW t \in Threads, Release(t) PROVE TypeOK'
  <2>1. lease[Home[t]] - 1 \in 0 .. Sealing
    <3>1. lease[Home[t]] \in 1 .. Mask
      BY <1>14, HolderIsCounted DEF Release
    <3> QED
      BY <3>1 DEF Sealing
  <2>2. lease' \in [Processes -> 0 .. Sealing]
    BY <1>14, <2>1 DEF Release
  <2> QED
    BY <1>14, <2>2 DEF Release
<1> QED
  BY <1>1, <1>2, <1>3, <1>4, <1>5, <1>6, <1>8, <1>9, <1>10, <1>11, <1>12, <1>13, <1>14
     DEF Next, vars, Program, Handler, World

-----------------------------------------------------------------------------
(* Leases.                                                                  *)

\* What a step does to the leases that are out, and to the words that count them.
LEMMA CountedStep == TypeOK /\ Counted /\ [Next]_vars => Counted'
<1> SUFFICES ASSUME TypeOK, Counted, [Next]_vars PROVE Counted'
  OBVIOUS
<1> USE RecorderAssumption, SealingIsNoCount
<1>0. /\ lease \in [Processes -> 0 .. Sealing]
      /\ at \in [Threads -> {"user", "loading", "swapping", "leased", "leaving"}]
      /\ Home \in [Threads -> Processes]
  BY DEF TypeOK
<1>1. ASSUME NEW t \in Threads, Lease(t) PROVE Counted'
  <2> DEFINE p == Home[t]
  <2>1. seen[t] \in 0 .. Mask - 1 /\ lease[p] = seen[t] /\ p \in Processes
    BY <1>1 DEF Lease, TypeOK
  <2>2. Holders(p)' = Holders(p) \union {t} /\ t \notin Holders(p)
    BY <1>0, <1>1 DEF Lease, Holders
  <2>3. \A q \in Processes \ {p} : Holders(q)' = Holders(q) /\ lease'[q] = lease[q]
    BY <1>0, <1>1 DEF Lease, Holders
  <2>4. lease[p] = Cardinality(Holders(p)) /\ lease'[p] = lease[p] + 1 /\ lease'[p] # Sealing
    BY <1>0, <1>1, <2>1 DEF Lease, Counted, Sealing
  <2>5. lease'[p] = Cardinality(Holders(p)')
    BY <2>2, <2>4, HoldersAreFinite, FS_AddElement
  <2> QED
    BY <2>3, <2>4, <2>5 DEF Counted, Sealing
<1>2. ASSUME NEW t \in Threads, Release(t) PROVE Counted'
  <2> DEFINE p == Home[t]
  <2>1. lease[p] \in 1 .. Mask /\ p \in Processes
    BY <1>0, <1>2, HolderIsCounted DEF Release
  <2>2. Holders(p)' = Holders(p) \ {t} /\ t \in Holders(p)
    BY <1>0, <1>2 DEF Release, Holders
  <2>3. \A q \in Processes \ {p} : Holders(q)' = Holders(q) /\ lease'[q] = lease[q]
    BY <1>0, <1>2 DEF Release, Holders
  <2>4. lease[p] = Cardinality(Holders(p)) /\ lease'[p] = lease[p] - 1 /\ lease'[p] # Sealing
    BY <1>0, <1>2, <2>1 DEF Release, Counted, Sealing
  <2>5. lease'[p] = Cardinality(Holders(p)')
    <3>1. IsFiniteSet(Holders(p))
      BY HoldersAreFinite
    <3>2. Cardinality(Holders(p) \ {t}) = Cardinality(Holders(p)) - 1
      BY <2>2, <3>1, FS_RemoveElement
    <3> QED
      BY <2>2, <2>4, <3>2
  <2> QED
    BY <2>3, <2>4, <2>5 DEF Counted, Sealing
<1>3. ASSUME NEW p \in Processes, Claim(p) PROVE Counted'
  <2>1. \A q \in Processes : Holders(q)' = Holders(q)
    BY <1>3 DEF Claim, thread, Holders
  <2>2. lease[p] = 0 => Holders(p) = {}
    BY HoldersAreFinite, FS_EmptySet DEF Counted, Sealing
  <2>3. \A q \in Processes : lease'[q] = lease[q] \/ (q = p /\ lease[p] = 0 /\ lease'[p] = Sealing)
    BY <1>0, <1>3 DEF Claim
  <2> QED
    BY <2>1, <2>2, <2>3 DEF Counted
<1>4. ASSUME \A q \in Processes : Holders(q)' = Holders(q) /\ lease'[q] = lease[q] PROVE Counted'
  BY <1>4 DEF Counted, Sealing
<1>5. ASSUME NEW t \in Threads, \/ \E site \in Code[t] : Guard(t, site)
                              \/ Load(t) \/ Refused(t) \/ Retry(t) \/ Mark(t)
      PROVE  Counted'
  <2>1. \A q \in Processes : Holders(q)' = Holders(q)
    <3>1. PICK w \in {"user", "loading", "swapping"} :
            \/ at[t] \in {"user", "loading", "swapping"} /\ at' = [at EXCEPT ![t] = w]
            \/ at[t] = "leased" /\ at' = [at EXCEPT ![t] = "leaving"]
            \/ at' = at
      BY <1>5 DEF Guard, Load, Refused, Retry, Mark
    <3> QED
      BY <1>0, <3>1 DEF Holders
  <2>2. lease' = lease
    BY <1>5 DEF Guard, Load, Refused, Retry, Mark, process
  <2> QED
    BY <1>4, <2>1, <2>2
<1>6. ASSUME lease' = lease, at' = at PROVE Counted'
  BY <1>4, <1>6 DEF Holders
<1> QED
  BY <1>1, <1>2, <1>3, <1>5, <1>6 DEF Next, vars, Program, Handler, World, process, thread,
     TryBeginSeal, WriteWord, WriteOverflow, WriteSeal, Spawn, Exit, Quit, Kill, WriteFails, Sample

\* A process that closed its census has no lease out, and a holder may still mark.
LEMMA ClosedIsQuiet ==
  ASSUME Counted, NEW p \in Processes, lease[p] = Sealing,
         NEW t \in Threads, Home[t] = p
  PROVE  at[t] \notin {"leased", "leaving"}
BY DEF Counted, Holders

-----------------------------------------------------------------------------
(* Stages.                                                                  *)

\* Every step leaves each process with what its stage has.
LEMMA StagedStep == TypeOK /\ Counted /\ Staged /\ [Next]_vars => Staged'
<1> SUFFICES ASSUME TypeOK, Counted, Staged, [Next]_vars PROVE Staged'
  OBVIOUS
<1> USE RecorderAssumption, SealingIsNoCount
<1>0. /\ lease \in [Processes -> 0 .. Sealing] /\ life \in [Processes -> Lives]
      /\ selection \in [Processes -> {"census", "none"}]
      /\ cursor \in [Processes -> 1 .. Len(Words) + 2]
      /\ ran \in [Processes -> SUBSET Site] /\ Home \in [Threads -> Processes]
  BY LivesAre DEF TypeOK
<1>1. ASSUME NEW t \in Threads, Lease(t) \/ Release(t) PROVE Staged'
  <2>1. lease[Home[t]] # Sealing
    BY SMTT(30), <1>1, HolderIsCounted DEF Lease, Release, TypeOK, Sealing
  <2>2. life[Home[t]] \in Alive
    BY <1>1 DEF Lease, Release, Running
  <2> QED
    BY ZenonT(40), <1>0, <1>1, <2>1, <2>2 DEF Lease, Release, Ran, Staged, Alive
<1>2. ASSUME NEW t \in Threads, NEW site \in Code[t], Guard(t, site) PROVE Staged'
  BY <1>0, <1>2 DEF Guard, Running, Alive, Staged, process
<1>3. ASSUME NEW t \in Threads, Load(t) \/ Refused(t) \/ Retry(t) \/ Mark(t) PROVE Staged'
  BY <1>0, <1>3 DEF Load, Refused, Closed, Retry, Mark, Staged, process
<1>4. ASSUME NEW p \in Processes, Spawn(p) \/ Exit(p) \/ Quit(p) \/ Kill(p) PROVE Staged'
  BY <1>0, <1>4 DEF Spawn, Exit, Quit, Kill, Staged
<1>5. ASSUME NEW p \in Processes, TryBeginSeal(p) \/ Claim(p) PROVE Staged'
  BY <1>0, <1>5 DEF TryBeginSeal, Claim, Staged
<1>6. ASSUME NEW p \in Processes, WriteWord(p) \/ WriteOverflow(p) PROVE Staged'
  BY <1>0, <1>6 DEF WriteWord, WriteOverflow, Staged
<1>7. ASSUME NEW p \in Processes, WriteSeal(p) \/ WriteFails(p) PROVE Staged'
  BY ZenonT(40), <1>0, <1>7 DEF WriteSeal, WriteFails, Staged
<1>8. CASE Sample
  BY <1>0, <1>8 DEF Sample, Staged, Alive
<1>9. CASE UNCHANGED vars
  BY <1>9 DEF vars, process, Staged
<1> QED
  BY <1>1, <1>2, <1>3, <1>4, <1>5, <1>6, <1>7, <1>8, <1>9 DEF Next, Program, Handler, World

-----------------------------------------------------------------------------
(* What ran is noted.                                                       *)

\* Every step leaves what ran noted.
LEMMA NotedStep == TypeOK /\ Counted /\ Staged /\ Noted /\ [Next]_vars => Noted'
<1> SUFFICES ASSUME TypeOK, Counted, Staged, Noted, [Next]_vars PROVE Noted'
  OBVIOUS
<1> USE RecorderAssumption, SealingIsNoCount
<1>0. /\ selection \in [Processes -> {"census", "none"}]
      /\ reached \in [Processes -> SUBSET Within] /\ overflowed \in [Processes -> BOOLEAN]
      /\ at \in [Threads -> {"user", "loading", "swapping", "leased", "leaving"}]
      /\ want \in [Threads -> SUBSET Site]
      /\ ran \in [Processes -> SUBSET Site] /\ Home \in [Threads -> Processes]
  BY DEF TypeOK
<1>1. ASSUME NEW t \in Threads, NEW site \in Code[t], Guard(t, site) PROVE Noted'
  BY <1>0, <1>1 DEF Guard, Noted, process, bitmap
<1>2. ASSUME NEW t \in Threads, Load(t) \/ Retry(t) \/ Refused(t) \/ Release(t) PROVE Noted'
  BY <1>0, <1>2 DEF Load, Retry, Refused, Closed, Release, Noted, process, bitmap
<1>3. ASSUME NEW t \in Threads, Lease(t) PROVE Noted'
  <2>1. ran' = [ran EXCEPT ![Home[t]] = @ \union want[t]] /\ at' = [at EXCEPT ![t] = "leased"]
    BY <1>3 DEF Lease, Ran
  <2>2. UNCHANGED <<selection, reached, overflowed, want>> /\ at[t] = "swapping"
    BY <1>3 DEF Lease, bitmap
  <2> QED
    BY <1>0, <2>1, <2>2 DEF Noted
<1>4. ASSUME NEW t \in Threads, Mark(t) PROVE Noted'
  <2>1. UNCHANGED <<selection, ran, want>> /\ at' = [at EXCEPT ![t] = "leaving"]
    BY <1>4 DEF Mark, process
  <2>2. \A p \in Processes : reached[p] \subseteq reached'[p] /\ (overflowed[p] => overflowed'[p])
    BY <1>0, <1>4 DEF Mark
  <2>3. \A s \in want[t] : s \in reached'[Home[t]] \/ (s \in Beyond /\ overflowed'[Home[t]])
    BY <1>0, <1>4 DEF Mark
  <2> QED
    BY <1>0, <2>1, <2>2, <2>3 DEF Noted
<1>5. ASSUME NEW p \in Processes, Spawn(p) PROVE Noted'
  BY <1>0, <1>5 DEF Spawn, Noted, Staged, thread, bitmap
<1>6. ASSUME UNCHANGED <<selection, bitmap, thread, ran>> PROVE Noted'
  BY <1>6 DEF Noted, bitmap, thread
<1> QED
  BY <1>1, <1>2, <1>3, <1>4, <1>5, <1>6 DEF Next, Program, Handler, World, vars, process,
     Exit, Quit, Kill, TryBeginSeal, Claim, WriteWord, WriteOverflow, WriteSeal, WriteFails, Sample

-----------------------------------------------------------------------------
(* What is written.                                                         *)

\* A closed process's bitmap stays as it is, whatever its threads do.
LEMMA ClosedStays ==
  ASSUME TypeOK, Counted, [Next]_vars, NEW p \in Processes, lease[p] = Sealing
  PROVE  lease'[p] = Sealing /\ reached'[p] = reached[p] /\ overflowed'[p] = overflowed[p]
<1> USE RecorderAssumption, SealingIsNoCount
<1>0. /\ lease \in [Processes -> 0 .. Sealing] /\ Home \in [Threads -> Processes]
      /\ reached \in [Processes -> SUBSET Within] /\ overflowed \in [Processes -> BOOLEAN]
  BY DEF TypeOK
<1>1. ASSUME NEW t \in Threads, Lease(t) \/ Release(t)
      PROVE  lease'[p] = Sealing /\ UNCHANGED bitmap
  <2>1. lease[Home[t]] # Sealing
    BY SMTT(30), <1>1, HolderIsCounted DEF Lease, Release, TypeOK, Sealing
  <2> QED
    BY <1>0, <1>1, <2>1 DEF Lease, Release
<1>2. ASSUME NEW t \in Threads, Mark(t)
      PROVE  lease' = lease /\ reached'[p] = reached[p] /\ overflowed'[p] = overflowed[p]
  <2>1. Home[t] # p
    BY <1>2, ClosedIsQuiet DEF Mark
  <2> QED
    BY <1>0, <1>2, <2>1 DEF Mark, process
<1>3. ASSUME NEW q \in Processes, Claim(q) PROVE lease'[p] = Sealing /\ UNCHANGED bitmap
  BY <1>0, <1>3 DEF Claim
<1> QED
  BY <1>1, <1>2, <1>3 DEF Next, Program, Handler, World, vars, process, bitmap, Guard, Load,
     Refused, Retry, Spawn, Exit, Quit, Kill, TryBeginSeal, WriteWord, WriteOverflow, WriteSeal,
     WriteFails, Sample

\* The file only grows, by one write of one process.
LEMMA FileGrows ==
  ASSUME TypeOK, [Next]_vars
  PROVE  \/ file' = file
         \/ \E chunk \in Chunk, p \in Processes :
              /\ life[p] = "writing" /\ file' = Append(file, chunk)
              /\ chunk.mark = "seal" <=> WriteSeal(p)
<1> USE BitmapAssumption
<1>1. ASSUME NEW p \in Processes, WriteWord(p) \/ WriteOverflow(p) \/ WriteSeal(p) \/ WriteFails(p) \/ Kill(p)
      PROVE  \/ file' = file
             \/ \E chunk \in Chunk :
                  /\ life[p] = "writing" /\ file' = Append(file, chunk)
                  /\ chunk.mark = "seal" <=> WriteSeal(p)
  <2>1. CASE WriteWord(p)
    <3>1. reached[p] \intersect Words[cursor[p]] \in SUBSET Within
      BY <2>1 DEF TypeOK
    <3>2. Records(reached[p] \intersect Words[cursor[p]]) \in Chunk
      BY <3>1, ChunksAreTyped
    <3>3. ~WriteSeal(p)
      BY <2>1 DEF WriteWord, WriteSeal
    <3> QED
      BY <2>1, <3>2, <3>3 DEF WriteWord, Records
  <2>2. CASE WriteOverflow(p)
    <3>1. ~WriteSeal(p)
      BY <2>2 DEF WriteOverflow, WriteSeal
    <3> QED
      BY <2>2, <3>1, ChunksAreTyped DEF WriteOverflow, Marker
  <2>3. CASE WriteSeal(p)
    BY <2>3, ChunksAreTyped DEF WriteSeal, Marker
  <2>4. CASE WriteFails(p) \/ Kill(p)
    <3>1. ~WriteSeal(p)
      BY <2>4 DEF WriteFails, Kill, WriteSeal, TypeOK
    <3> QED
      BY <2>4, <3>1, ChunksAreTyped DEF WriteFails, Kill, Marker
  <2> QED
    BY <1>1, <2>1, <2>2, <2>3, <2>4
<1> QED
  BY <1>1 DEF Next, Program, Handler, World, vars, Guard, Load, Refused, Lease, Retry, Mark,
     Release, Spawn, Exit, Quit, TryBeginSeal, Claim, Sample

\* What was in the file is still there, at its place.
LEMMA FileKeeps ==
  ASSUME TypeOK, [Next]_vars, NEW j \in DOMAIN file
  PROVE  j \in DOMAIN file' /\ file'[j] = file[j]
<1>1. file \in Seq(Chunk)
  BY DEF TypeOK
<1>2. CASE file' = file
  BY <1>2
<1>3. ASSUME NEW chunk \in Chunk, file' = Append(file, chunk)
      PROVE  j \in DOMAIN file' /\ file'[j] = file[j]
  BY <1>1, <1>3
<1> QED
  BY <1>2, <1>3, FileGrows

\* Appended, a chunk is in the file.
LEMMA AppendedIsThere ==
  ASSUME TypeOK, NEW chunk \in Chunk, file' = Append(file, chunk)
  PROVE  /\ Len(file) + 1 \in DOMAIN file' /\ file'[Len(file) + 1] = chunk
         /\ DOMAIN file' = (DOMAIN file) \union {Len(file) + 1}
         /\ Len(file) + 1 \notin DOMAIN file
BY DEF TypeOK

\* Every step leaves what the cursor passed written.
LEMMA WrittenStep == TypeOK /\ Counted /\ Staged /\ Written /\ [Next]_vars => Written'
<1> SUFFICES ASSUME TypeOK, Counted, Staged, Written, [Next]_vars,
                    NEW p \in Processes, life'[p] \in {"writing", "sealed"}
             PROVE  Passed(p)'
  BY DEF Written
<1> USE RecorderAssumption, BitmapAssumption
<1>0. /\ life \in [Processes -> Lives] /\ cursor \in [Processes -> 1 .. Len(Words) + 2]
      /\ Len(Words) \in Nat /\ DOMAIN Words = 1 .. Len(Words)
  BY LivesAre DEF TypeOK
<1>1. CASE life[p] \in {"writing", "sealed"}
  <2>1. reached'[p] = reached[p] /\ overflowed'[p] = overflowed[p]
    BY <1>1, ClosedStays DEF Staged
  <2>2. Passed(p)
    BY <1>1 DEF Written
  <2>3. CASE cursor'[p] = cursor[p]
    BY <2>1, <2>2, <2>3, FileKeeps DEF Passed
  <2>4. CASE WriteWord(p)
    <3> DEFINE sites == reached[p] \intersect Words[cursor[p]]
    <3>1. cursor'[p] = cursor[p] + 1 /\ cursor[p] \in DOMAIN Words
      BY <1>0, <2>4 DEF WriteWord
    <3>2. ASSUME NEW site \in sites PROVE \E j \in DOMAIN file' : site \in file'[j].sites
      <4>1. file' = Append(file, Records(sites)) /\ Records(sites) \in Chunk
        <5>1. sites \in SUBSET Within
          BY <2>4 DEF WriteWord, TypeOK
        <5> QED
          BY <2>4, <3>2, <5>1, ChunksAreTyped DEF WriteWord
      <4> QED
        BY <3>2, <4>1, AppendedIsThere DEF Records
    <3>3. \A i \in DOMAIN Words : i < cursor'[p] => i < cursor[p] \/ i = cursor[p]
      BY <1>0, <3>1
    <3>4. cursor'[p] # Len(Words) + 2
      BY <1>0, <3>1
    <3> QED
      BY <2>1, <2>2, <3>2, <3>3, <3>4, FileKeeps DEF Passed
  <2>5. CASE WriteOverflow(p)
    <3>1. cursor[p] = Len(Words) + 1 /\ cursor'[p] = Len(Words) + 2
      BY <1>0, <2>5 DEF WriteOverflow
    <3>2. \A i \in DOMAIN Words : i < cursor[p]
      BY <1>0, <3>1
    <3>3. overflowed[p] => \E j \in DOMAIN file' : file'[j].mark = "overflow"
      <4>1. overflowed[p] => file' = Append(file, Marker("overflow")) /\ Marker("overflow") \in Chunk
        BY <2>5, ChunksAreTyped DEF WriteOverflow
      <4> QED
        BY <4>1, AppendedIsThere DEF Marker
    <3> QED
      BY <2>1, <2>2, <3>2, <3>3, FileKeeps DEF Passed
  <2>6. cursor'[p] = cursor[p] \/ WriteWord(p) \/ WriteOverflow(p)
    BY ZenonT(40), <1>0 DEF Next, Program, Handler, World, vars, process, Guard, Load, Refused, Lease, Retry,
       Mark, Release, Spawn, Exit, Quit, Kill, TryBeginSeal, Claim, WriteWord, WriteOverflow,
       WriteSeal, WriteFails, Sample
  <2> QED
    BY <2>3, <2>4, <2>5, <2>6
<1>2. CASE life[p] \notin {"writing", "sealed"}
  <2>1. Claim(p)
    BY <1>0, <1>2 DEF Next, Program, Handler, World, vars, process, Guard, Load, Refused, Lease,
       Retry, Mark, Release, Spawn, Exit, Quit, Kill, TryBeginSeal, Claim, WriteWord,
       WriteOverflow, WriteSeal, WriteFails, Sample
  <2>2. cursor'[p] = 1
    BY <2>1 DEF Claim, Staged
  <2> QED
    BY <1>0, <2>2 DEF Passed
<1> QED
  BY <1>1, <1>2

-----------------------------------------------------------------------------
(* Seals, and the sample.                                                   *)

\* Every step leaves the seals and the sealed one to one.
LEMMA OneSealEachStep == TypeOK /\ OneSealEach /\ [Next]_vars => OneSealEach'
<1> SUFFICES ASSUME TypeOK, [Next]_vars, NEW pos \in [Processes -> Nat], SealsOf(pos)
             PROVE  OneSealEach'
  BY DEF OneSealEach
<1>0. life \in [Processes -> Lives] /\ file \in Seq(Chunk)
  BY LivesAre DEF TypeOK
<1>1. ASSUME NEW q \in Processes, WriteSeal(q) PROVE OneSealEach'
  <2>0. [pos EXCEPT ![q] = Len(file) + 1] \in [Processes -> Nat]
    BY <1>0
  <2> PICK after \in [Processes -> Nat] : after = [pos EXCEPT ![q] = Len(file) + 1]
    BY <2>0
  <2>1. /\ life[q] = "writing" /\ life' = [life EXCEPT ![q] = "sealed"]
        /\ file' = Append(file, Marker("seal")) /\ Marker("seal") \in Chunk
    BY <1>1, ChunksAreTyped DEF WriteSeal
  <2>2. /\ DOMAIN file' = (DOMAIN file) \union {Len(file) + 1}
        /\ file'[Len(file) + 1].mark = "seal" /\ Len(file) + 1 \notin DOMAIN file
    BY <2>1, AppendedIsThere DEF Marker
  <2>3. \A j \in DOMAIN file : file'[j] = file[j]
    BY FileKeeps
  <2>4. after \in [Processes -> Nat] /\ after[q] = Len(file) + 1
    BY <1>0
  <2>5. \A p \in Processes : p # q => after[p] = pos[p] /\ life'[p] = life[p]
    BY <1>0, <2>1
  <2>6. life'[q] = "sealed"
    BY <1>0, <2>1
  <2>7. \A p \in Processes : life'[p] = "sealed" =>
          after[p] \in DOMAIN file' /\ file'[after[p]].mark = "seal" /\ (p # q => after[p] \in DOMAIN file)
    BY <2>2, <2>3, <2>4, <2>5 DEF SealsOf
  <2>8. \A p, r \in Processes :
          life'[p] = "sealed" /\ life'[r] = "sealed" /\ after[p] = after[r] => p = r
    BY <2>2, <2>4, <2>5, <2>7 DEF SealsOf
  <2>9. \A j \in DOMAIN file' : file'[j].mark = "seal" =>
          \E p \in Processes : life'[p] = "sealed" /\ after[p] = j
    <3> SUFFICES ASSUME NEW j \in DOMAIN file', file'[j].mark = "seal"
                 PROVE  \E p \in Processes : life'[p] = "sealed" /\ after[p] = j
      OBVIOUS
    <3>1. CASE j = Len(file) + 1
      BY <2>4, <2>6, <3>1
    <3>2. CASE j \in DOMAIN file
      <4>1. PICK p \in Processes : life[p] = "sealed" /\ pos[p] = j
        BY <2>3, <3>2 DEF SealsOf
      <4>2. p # q
        BY <2>1, <4>1
      <4> QED
        BY <2>5, <4>1, <4>2
    <3> QED
      BY <2>2, <3>1, <3>2
  <2>10. SealsOf(after)'
    BY <2>7, <2>8, <2>9 DEF SealsOf
  <2> QED
    BY <2>4, <2>10 DEF OneSealEach
<1>2. ASSUME \A q \in Processes : ~WriteSeal(q) PROVE OneSealEach'
  <2>1. \A p \in Processes : life'[p] = "sealed" <=> life[p] = "sealed"
    BY <1>0, <1>2 DEF Next, Program, Handler, World, vars, process, Guard, Load, Refused, Lease,
       Retry, Mark, Release, Spawn, Exit, Quit, Kill, TryBeginSeal, Claim, WriteWord,
       WriteOverflow, WriteFails, Sample, Alive
  <2>2. \A j \in DOMAIN file : j \in DOMAIN file' /\ file'[j] = file[j]
    BY FileKeeps
  <2>3. \A j \in DOMAIN file' : file'[j].mark = "seal" => j \in DOMAIN file
    <3>1. CASE file' = file
      BY <3>1
    <3>2. ASSUME NEW chunk \in Chunk, file' = Append(file, chunk), chunk.mark # "seal"
          PROVE  \A j \in DOMAIN file' : file'[j].mark = "seal" => j \in DOMAIN file
      BY <3>2, AppendedIsThere
    <3> QED
      BY <1>2, <3>1, <3>2, FileGrows
  <2>4. SealsOf(pos)'
    BY <2>1, <2>2, <2>3 DEF SealsOf
  <2> QED
    BY <2>4 DEF OneSealEach
<1> QED
  BY <1>1, <1>2

\* Every step leaves a sample what its file says.
LEMMA BelievedStep == TypeOK /\ Believed /\ [Next]_vars => Believed'
<1> SUFFICES ASSUME TypeOK, Believed, [Next]_vars PROVE Believed'
  OBVIOUS
<1>1. CASE Sample
  <2>1. \A p \in Processes : life'[p] \notin Alive
    BY <1>1 DEF Sample, Alive
  <2>2. sampled'.state = "known" => sampled' = Decode(file)
    BY <1>1 DEF Sample, Unknown
  <2>3. Decode(file).state = "known" =>
          Whole(file) /\ Decode(file).sites = UNION {file[i].sites : i \in DOMAIN file}
    BY DEF Decode, Known, Unknown
  <2>4. file' = file
    BY <1>1 DEF Sample
  <2> QED
    BY <2>1, <2>2, <2>3, <2>4 DEF Believed, Whole
<1>2. CASE sampled # Unread /\ ~Sample
  <2>1. \A p \in Processes : life[p] \notin Alive
    BY <1>2 DEF Believed
  <2>2. UNCHANGED <<life, file, sampled>>
    BY <2>1, <1>2, RecorderAssumption DEF Next, Program, Handler, World, vars, process, Guard, Load, Refused,
       Lease, Retry, Mark, Release, Running, Spawn, Exit, Quit, Kill, TryBeginSeal, Claim,
       WriteWord, WriteOverflow, WriteSeal, WriteFails, Alive
  <2> QED
    BY <2>2 DEF Believed, Whole
<1>3. CASE sampled = Unread /\ ~Sample
  <2>1. sampled' = Unread
    BY <1>3 DEF Next, Program, Handler, World, vars, Guard, Load, Refused, Lease, Retry, Mark,
       Release, Spawn, Exit, Quit, Kill, TryBeginSeal, Claim, WriteWord, WriteOverflow,
       WriteSeal, WriteFails
  <2> QED
    BY <2>1 DEF Believed, Unread
<1> QED
  BY <1>1, <1>2, <1>3

-----------------------------------------------------------------------------
(* The theorems.                                                            *)

\* The invariant holds at the start.
LEMMA InitHolds == Init => IInv
<1> SUFFICES ASSUME Init PROVE IInv
  OBVIOUS
<1> USE RecorderAssumption, BitmapAssumption, SealingIsNoCount
<1>1. Counted
  <2>1. \A p : Holders(p) = {}
    BY DEF Init, Holders
  <2> QED
    BY <2>1, FS_EmptySet DEF Init, Counted
<1>2. Staged /\ Noted /\ Written
  BY DEF Init, Staged, Noted, Written
<1>3. OneSealEach
  <2>1. [p \in Processes |-> 0] \in [Processes -> Nat]
    OBVIOUS
  <2>2. SealsOf([p \in Processes |-> 0])
    BY DEF Init, SealsOf
  <2> QED
    BY <2>1, <2>2 DEF OneSealEach
<1>4. Believed
  BY DEF Init, Believed, Unread
<1> QED
  BY <1>1, <1>2, <1>3, <1>4, TypeInit DEF IInv

\* Every step of a recording keeps the invariant, stuttering included.
LEMMA StepHolds == IInv /\ [Next]_vars => IInv'
BY TypeStep, CountedStep, StagedStep, NotedStep, WrittenStep, OneSealEachStep, BelievedStep DEF IInv

\* The inductive invariant: leases counted, stages kept, what ran noted, what a handler
\* passed written, one seal for each process that sealed.  (note, begin_seal, write_reached)
THEOREM Invariance == Spec => []IInv
<1> HIDE DEF IInv
<1> QED
  BY InitHolds, StepHolds, PTL DEF Spec

\* Every variable keeps its type: the lease word counts and never wraps.
\* (begin_recording, end_recording)
THEOREM TypeCorrect == Spec => []TypeOK
<1>1. IInv => TypeOK
  BY DEF IInv
<1> QED
  BY <1>1, Invariance, PTL

\* A bitmap being written no longer changes, whatever its guards are at.
\* (begin_recording, begin_seal)
THEOREM ClosedIsFinal == Spec => ClosedBitmapIsFinal
<1>1. IInv /\ [Next]_vars => [\A p \in Processes : lease[p] = Sealing =>
         /\ lease'[p] = Sealing
         /\ reached'[p] = reached[p] /\ overflowed'[p] = overflowed[p]]_vars
  BY ClosedStays DEF IInv
<1> QED
  BY <1>1, Invariance, PTL DEF Spec, ClosedBitmapIsFinal

\* A whole file was sealed by one process, and holds what that process ran.
LEMMA InvariantVouches == IInv => SealVouches
<1> SUFFICES ASSUME IInv, sampled.state = "known"
             PROVE  \E p \in Processes : /\ \A q \in Processes : life[q] = "sealed" <=> q = p
                                         /\ ran[p] \subseteq sampled.sites
  BY DEF SealVouches
<1> USE BitmapAssumption
<1>0. TypeOK /\ Counted /\ Staged /\ Noted /\ Written /\ OneSealEach /\ Believed
  BY DEF IInv
<1>1. /\ file # << >> /\ file[Len(file)].mark = "seal"
      /\ \A i \in 1 .. Len(file) - 1 : file[i].mark = "none"
      /\ sampled.sites = UNION {file[i].sites : i \in DOMAIN file}
  BY <1>0 DEF Believed, Whole
<1>2. Len(file) \in DOMAIN file /\ DOMAIN file = 1 .. Len(file) /\ Len(file) \in Nat
  BY <1>0, <1>1 DEF TypeOK
<1>3. PICK pos \in [Processes -> Nat] : SealsOf(pos)
  BY <1>0 DEF OneSealEach
<1>4. PICK p \in Processes : life[p] = "sealed" /\ pos[p] = Len(file)
  BY <1>1, <1>2, <1>3 DEF SealsOf
<1>5. \A q \in Processes : life[q] = "sealed" <=> q = p
  <2> SUFFICES ASSUME NEW q \in Processes, life[q] = "sealed" PROVE q = p
    BY <1>4
  <2>1. pos[q] \in DOMAIN file /\ file[pos[q]].mark = "seal"
    BY <1>3 DEF SealsOf
  <2>2. pos[q] = Len(file)
    BY <1>1, <1>2, <2>1
  <2> QED
    BY <1>3, <1>4, <2>2 DEF SealsOf
<1>6. ~overflowed[p]
  <2>1. overflowed[p] => \E j \in DOMAIN file : file[j].mark = "overflow"
    BY <1>0, <1>4 DEF Written, Passed, Staged
  <2>2. \A j \in DOMAIN file : file[j].mark # "overflow"
    BY <1>1, <1>2
  <2> QED
    BY <2>1, <2>2
<1>7. ran[p] \subseteq reached[p]
  <2>1. \A t \in Threads : Home[t] = p => at[t] # "leased"
    BY <1>0, <1>4, ClosedIsQuiet DEF Staged
  <2> QED
    BY <1>0, <1>4, <1>6, <2>1 DEF Noted, Staged
<1>8. reached[p] \subseteq sampled.sites
  <2> SUFFICES ASSUME NEW site \in reached[p] PROVE site \in sampled.sites
    OBVIOUS
  <2>1. PICK i \in DOMAIN Words : site \in Words[i]
    BY <1>0 DEF TypeOK, Within
  <2>2. i < cursor[p]
    BY <1>0, <1>4, <2>1 DEF Staged, TypeOK
  <2>3. \E j \in DOMAIN file : site \in file[j].sites
    BY <1>0, <1>4, <2>1, <2>2 DEF Written, Passed
  <2> QED
    BY <1>1, <2>3
<1> QED
  BY <1>5, <1>7, <1>8

\* A seal vouches for what came before it: no interleaving of guards, exit handlers,
\* kills and torn writes makes a sample believed that misses what its process ran.
\* (seal, decode)
THEOREM SealsVouch == Spec => []SealVouches
BY InvariantVouches, Invariance, PTL

-----------------------------------------------------------------------------
(* The walk: what it keeps.                                                 *)

\* What is attributed to a test, that test reaches.
Truthful ==
  \A b \in Binaries : \A site \in Sites, t \in Nat :
    <<site, t>> \in attributed[b] => t \in TestsOf(b) /\ site \in reach[b][t]

\* All that place i of the queue reaches is attributed to it.
SeenToEnd(i) ==
  \A site \in reach[BinaryAt(i)][TestAt(i)] : <<site, TestAt(i)>> \in attributed[BinaryAt(i)]

\* A worker has place i and has not answered for it.
Awaited(i) == \E w \in Workers : pc[w] \in {"taken", "sampling"} /\ task[w] = i

\* A place taken is seen to its end, or its binary is spoiled, or a worker is at it.
NothingMissed ==
  \A i \in Nat : i < next /\ i < Total => BinaryAt(i) \in spoiled \/ SeenToEnd(i) \/ Awaited(i)

\* How far the walk is says where its workers are.
InStep ==
  /\ phase = "listing" => next = 0
  /\ phase # "mapped" => \A b \in census : Tests[b] = 0
  /\ \A w \in Workers :
       /\ phase = "listing" => pc[w] = "idle"
       /\ pc[w] \in {"taken", "sampling", "leaving"} => phase = "walking" /\ task[w] < Total
       /\ pc[w] = "done" => next >= Total

\* Of a binary the census knows, no test is missing at a site it reaches.
Complete ==
  \A b \in census : \A t \in TestsOf(b) : \A site \in reach[b][t] : <<site, t>> \in attributed[b]

WalkInv == CensusTypeOK /\ Truthful /\ NothingMissed /\ InStep /\ Complete

-----------------------------------------------------------------------------
(* The queue.                                                               *)

\* The order of the natural numbers.
Less == {pair \in Nat \X Nat : pair[1] < pair[2]}

\* A set of natural numbers that is not empty has a least one.
LEMMA SomeLeast ==
  ASSUME NEW T \in SUBSET Nat, T # {}
  PROVE  \E x \in T : \A y \in T : x <= y
<1>1. IsWellFoundedOn(Less, Nat)
  BY NatLessThanWellFounded, Zenon DEF Less, OpToRel
<1>2. PICK x \in T : \A y \in T : ~(<<y, x>> \in Less)
  BY <1>1, WFMin
<1>3. \A i, j \in Nat : i < j => <<i, j>> \in Less
  BY DEF Less
<1>4. ASSUME NEW y \in T PROVE x <= y
  <2>1. x \in Nat /\ y \in Nat
    OBVIOUS
  <2>2. ~(y < x)
    BY <1>2, <1>3, <2>1
  <2> QED
    BY <2>1, <2>2
<1> QED
  BY <1>4

\* What Offsets is meant to be, up to n listed binaries.
Starts(f, n) ==
  f = [k \in 1 .. n + 1 |-> IF k = 1 THEN 0 ELSE f[k - 1] + Tests[listed[k - 1]]]

\* However many binaries there are, the scan has an answer.
LEMMA StartsExist ==
  ASSUME NEW n \in Nat
  PROVE  \E f : Starts(f, n)
<1> DEFINE T == {m \in Nat : ~\E f : Starts(f, m)}
<1>1. SUFFICES ASSUME T # {} PROVE FALSE
  OBVIOUS
<1>2. PICK x \in T : \A y \in T : x <= y
  BY <1>1, SomeLeast
<1>3. CASE x = 0
  <2>1. Starts([k \in 1 .. 1 |-> 0], 0)
    BY DEF Starts
  <2> QED
    BY <1>2, <1>3, <2>1
<1>4. CASE x # 0
  <2>1. x - 1 \in Nat /\ x \in Nat /\ x - 1 \notin T
    BY <1>2, <1>4
  <2>2. PICK f : Starts(f, x - 1)
    BY <2>1
  <2> DEFINE g == [k \in 1 .. x + 1 |-> IF k = x + 1 THEN f[x] + Tests[listed[x]] ELSE f[k]]
  <2>3. DOMAIN f = 1 .. x /\ \A k \in 1 .. x : f[k] = IF k = 1 THEN 0 ELSE f[k - 1] + Tests[listed[k - 1]]
    BY <2>1, <2>2 DEF Starts
  <2>4. \A k \in 1 .. x + 1 : g[k] = IF k = 1 THEN 0 ELSE g[k - 1] + Tests[listed[k - 1]]
    BY <1>4, <2>1, <2>3
  <2>5. Starts(g, x)
    BY <2>1, <2>4 DEF Starts
  <2> QED
    BY <1>2, <2>5
<1> QED
  BY <1>3, <1>4

\* Where the binaries start: the first at the head of the queue, each of the others
\* where the one before it ends.
LEMMA OffsetsMeaning ==
  ASSUME CensusTypeOK
  PROVE  /\ Len(listed) \in Nat /\ DOMAIN listed = 1 .. Len(listed)
         /\ Offsets[1] = 0
         /\ \A k \in 1 .. Len(listed) :
              Offsets[k + 1] = Offsets[k] + Tests[listed[k]] /\ Tests[listed[k]] \in Nat
<1>0. /\ Len(listed) \in Nat /\ DOMAIN listed = 1 .. Len(listed)
      /\ \A k \in 1 .. Len(listed) : Tests[listed[k]] \in Nat
  BY CensusAssumption DEF CensusTypeOK
<1>1. Starts(Offsets, Len(listed))
  BY StartsExist, <1>0 DEF Starts, Offsets
<1>2. Offsets[1] = 0
  BY <1>0, <1>1 DEF Starts
<1>3. ASSUME NEW k \in 1 .. Len(listed)
      PROVE  Offsets[k + 1] = Offsets[k] + Tests[listed[k]]
  <2>1. k + 1 \in 1 .. Len(listed) + 1 /\ k + 1 # 1 /\ (k + 1) - 1 = k
    BY <1>0
  <2> QED
    BY <1>1, <2>1 DEF Starts
<1> QED
  BY <1>0, <1>2, <1>3

\* No binary starts before the head of the queue, or after one that follows it.
LEMMA OffsetsRise ==
  ASSUME CensusTypeOK, NEW j \in 1 .. Len(listed) + 1
  PROVE  /\ Offsets[j] \in Nat
         /\ \A k \in j .. Len(listed) + 1 : Offsets[j] <= Offsets[k]
<1>1. /\ Len(listed) \in Nat /\ j \in Nat /\ Offsets[1] = 0
      /\ \A k \in 1 .. Len(listed) :
           Offsets[k + 1] = Offsets[k] + Tests[listed[k]] /\ Tests[listed[k]] \in Nat
  BY OffsetsMeaning
<1> DEFINE T == {m \in 1 .. Len(listed) + 1 : Offsets[m] \notin Nat}
<1>2. T = {}
  <2>1. SUFFICES ASSUME T # {} PROVE FALSE
    OBVIOUS
  <2>2. T \in SUBSET Nat
    BY <1>1
  <2>3. PICK x \in T : \A y \in T : x <= y
    BY <2>1, <2>2, SomeLeast
  <2>4. x \in Nat /\ x <= Len(listed) + 1 /\ x # 1 /\ x >= 1 /\ Offsets[x] \notin Nat
    BY <1>1, <2>3
  <2>5. x - 1 \in 1 .. Len(listed) /\ x - 1 \notin T /\ (x - 1) + 1 = x
    BY <1>1, <2>3, <2>4
  <2>6. Offsets[x - 1] \in Nat
    BY <1>1, <2>5
  <2>7. Offsets[x] = Offsets[x - 1] + Tests[listed[x - 1]] /\ Tests[listed[x - 1]] \in Nat
    BY <1>1, <2>5
  <2> QED
    BY <2>4, <2>6, <2>7
<1>3. \A m \in 1 .. Len(listed) + 1 : Offsets[m] \in Nat
  BY <1>2
<1> HIDE DEF T
<1>4. ASSUME NEW k \in j .. Len(listed) + 1 PROVE Offsets[j] <= Offsets[k]
  <2> DEFINE U == {m \in j .. Len(listed) + 1 : ~(Offsets[j] <= Offsets[m])}
  <2>1. SUFFICES ASSUME U # {} PROVE FALSE
    OBVIOUS
  <2>2. U \in SUBSET Nat
    BY <1>1
  <2>3. PICK x \in U : \A y \in U : x <= y
    BY <2>1, <2>2, SomeLeast
  <2>4. x \in Nat /\ x <= Len(listed) + 1 /\ x >= j /\ ~(Offsets[j] <= Offsets[x])
    BY <1>1, <2>3
  <2>5. x # j
    BY <1>3, <2>4
  <2>6. /\ x - 1 \in 1 .. Len(listed) /\ x - 1 \in j .. Len(listed) + 1
        /\ x - 1 \notin U /\ (x - 1) + 1 = x
    BY <1>1, <2>3, <2>4, <2>5
  <2>7. Offsets[j] <= Offsets[x - 1]
    BY <2>6
  <2>8. Offsets[x] = Offsets[x - 1] + Tests[listed[x - 1]] /\ Tests[listed[x - 1]] \in Nat
    BY <1>1, <2>6
  <2>9. Offsets[j] \in Nat /\ Offsets[x - 1] \in Nat
    BY <1>1, <1>3, <2>6
  <2> QED
    BY <2>4, <2>7, <2>8, <2>9
<1> QED
  BY <1>3, <1>4

\* A place in the queue is one test of one listed binary.
LEMMA SlotHolds ==
  ASSUME CensusTypeOK, NEW i \in Nat, i < Total
  PROVE  /\ Slot(i) \in DOMAIN listed /\ BinaryAt(i) \in Binaries
         /\ Offsets[Slot(i)] <= i /\ i < Offsets[Slot(i) + 1]
         /\ TestAt(i) \in TestsOf(BinaryAt(i))
<1>1. /\ Len(listed) \in Nat /\ Offsets[1] = 0 /\ DOMAIN listed = 1 .. Len(listed)
      /\ \A k \in 1 .. Len(listed) :
           Offsets[k + 1] = Offsets[k] + Tests[listed[k]] /\ Tests[listed[k]] \in Nat
  BY OffsetsMeaning
<1>2. \A k \in 1 .. Len(listed) + 1 : Offsets[k] \in Nat
  BY OffsetsRise
<1>3. \E k \in DOMAIN listed : Offsets[k] <= i /\ i < Offsets[k + 1]
  <2> DEFINE T == {k \in 1 .. Len(listed) : i < Offsets[k + 1]}
  <2>1. Len(listed) # 0
    BY <1>1 DEF Total
  <2>2. Len(listed) \in T /\ T \in SUBSET Nat
    BY <1>1, <2>1 DEF Total
  <2>3. PICK x \in T : \A y \in T : x <= y
    BY <2>2, SomeLeast
  <2>4. x \in 1 .. Len(listed) /\ i < Offsets[x + 1]
    BY <2>3
  <2>5. Offsets[x] <= i
    <3>1. CASE x = 1
      BY <1>1, <3>1
    <3>2. CASE x # 1
      <4>1. x - 1 \in 1 .. Len(listed) /\ ~(x <= x - 1) /\ (x - 1) + 1 = x
        BY <1>1, <2>4, <3>2
      <4>2. x - 1 \notin T
        BY <2>3, <4>1
      <4>3. ~(i < Offsets[x]) /\ Offsets[x] \in Nat
        BY <1>1, <1>2, <2>4, <4>1, <4>2
      <4> QED
        BY <4>3
    <3> QED
      BY <3>1, <3>2
  <2> QED
    BY <1>1, <2>4, <2>5
<1>4. Slot(i) \in DOMAIN listed /\ Offsets[Slot(i)] <= i /\ i < Offsets[Slot(i) + 1]
  BY <1>3 DEF Slot
<1>5. BinaryAt(i) \in Binaries
  BY <1>1, <1>4 DEF BinaryAt, CensusTypeOK
<1>6. /\ Offsets[Slot(i)] \in Nat /\ Tests[BinaryAt(i)] \in Nat
      /\ Offsets[Slot(i) + 1] = Offsets[Slot(i)] + Tests[BinaryAt(i)]
  BY <1>1, <1>2, <1>4 DEF BinaryAt
<1>7. TestAt(i) \in TestsOf(BinaryAt(i))
  BY <1>4, <1>6 DEF TestAt, TestsOf
<1> QED
  BY <1>4, <1>5, <1>7

\* Every test of a listed binary has a place in the queue.
LEMMA PlaceOf ==
  ASSUME CensusTypeOK, NEW k \in DOMAIN listed, NEW t \in TestsOf(listed[k])
  PROVE  LET i == Offsets[k] + t - 1 IN
         i \in Nat /\ i < Total /\ BinaryAt(i) = listed[k] /\ TestAt(i) = t
<1> DEFINE i == Offsets[k] + t - 1
<1>1. /\ Len(listed) \in Nat /\ DOMAIN listed = 1 .. Len(listed)
      /\ \A m \in 1 .. Len(listed) :
           Offsets[m + 1] = Offsets[m] + Tests[listed[m]] /\ Tests[listed[m]] \in Nat
  BY OffsetsMeaning
<1>2. k \in Nat /\ k <= Len(listed) /\ k >= 1 /\ t \in Nat /\ t >= 1 /\ t <= Tests[listed[k]]
  BY <1>1 DEF TestsOf
<1>3. \A m \in 1 .. Len(listed) + 1 : Offsets[m] \in Nat
  BY OffsetsRise
<1>4. \A m, n \in 1 .. Len(listed) + 1 : m <= n => Offsets[m] <= Offsets[n]
  <2> SUFFICES ASSUME NEW m \in 1 .. Len(listed) + 1, NEW n \in 1 .. Len(listed) + 1, m <= n
               PROVE  Offsets[m] <= Offsets[n]
    OBVIOUS
  <2>1. n \in m .. Len(listed) + 1
    BY <1>1
  <2> QED
    BY OffsetsRise, <2>1
<1>5. /\ k \in 1 .. Len(listed) + 1 /\ k + 1 \in 1 .. Len(listed) + 1
      /\ Len(listed) + 1 \in 1 .. Len(listed) + 1 /\ k + 1 <= Len(listed) + 1
  BY <1>1, <1>2
<1>6. i \in Nat /\ Offsets[k] <= i /\ i < Offsets[k + 1]
  BY SMTT(30), <1>1, <1>2, <1>3, <1>5
<1>7. i < Total
  <2>1. Offsets[k + 1] <= Total /\ Total \in Nat /\ Offsets[k + 1] \in Nat
    BY <1>3, <1>4, <1>5 DEF Total
  <2> QED
    BY <1>6, <2>1
<1> HIDE DEF i
<1>8. Slot(i) \in 1 .. Len(listed) /\ Offsets[Slot(i)] <= i /\ i < Offsets[Slot(i) + 1]
  BY <1>1, <1>6, <1>7, SlotHolds
<1>9. Slot(i) = k
  <2>1. CASE Slot(i) < k
    <3>1. Slot(i) + 1 \in 1 .. Len(listed) + 1 /\ Slot(i) + 1 <= k
      BY <1>1, <1>2, <1>8, <2>1
    <3>2. Offsets[Slot(i) + 1] <= Offsets[k] /\ Offsets[Slot(i) + 1] \in Nat /\ Offsets[k] \in Nat
      BY <1>3, <1>4, <1>5, <3>1
    <3> QED
      BY <1>6, <1>8, <3>2
  <2>2. CASE k < Slot(i)
    <3>1. Slot(i) \in 1 .. Len(listed) + 1 /\ k + 1 <= Slot(i)
      BY <1>1, <1>2, <1>8, <2>2
    <3>2. Offsets[k + 1] <= Offsets[Slot(i)] /\ Offsets[Slot(i)] \in Nat /\ Offsets[k + 1] \in Nat
      BY <1>3, <1>4, <1>5, <3>1
    <3> QED
      BY <1>6, <1>8, <3>2
  <2> QED
    BY <1>2, <1>8, <2>1, <2>2
<1>10. BinaryAt(i) = listed[k] /\ TestAt(i) = i - Offsets[k] + 1
  BY <1>9 DEF BinaryAt, TestAt
<1>11. TestAt(i) = t
  BY <1>2, <1>3, <1>5, <1>10 DEF i
<1> QED
  BY <1>6, <1>7, <1>10, <1>11 DEF i

\* The queue is laid out once, when the listing is over.
LEMMA SameQueue ==
  ASSUME listed' = listed
  PROVE  /\ Total' = Total
         /\ \A i : BinaryAt(i)' = BinaryAt(i) /\ TestAt(i)' = TestAt(i)
<1>1. Offsets' = Offsets
  BY Zenon DEF Offsets
<1>2. Total' = Total
  BY <1>1 DEF Total
<1>3. ASSUME NEW i
      PROVE  Slot(i)' = Slot(i)
  BY <1>1, Zenon DEF Slot
<1>4. ASSUME NEW i
      PROVE  BinaryAt(i)' = BinaryAt(i) /\ TestAt(i)' = TestAt(i)
  BY <1>1, <1>3, Zenon DEF BinaryAt, TestAt
<1> QED
  BY <1>2, <1>4, Zenon

\* A worker at a place of the queue is at a test of a binary.
LEMMA AtATest ==
  ASSUME CensusTypeOK, InStep, NEW w \in Workers, pc[w] \in {"taken", "sampling", "leaving"}
  PROVE  /\ task[w] \in Nat /\ phase = "walking" /\ task[w] < Total
         /\ BinaryAt(task[w]) \in Binaries
         /\ TestAt(task[w]) \in TestsOf(BinaryAt(task[w])) /\ TestAt(task[w]) \in Nat
         /\ reach[BinaryAt(task[w])][TestAt(task[w])] \subseteq Sites
<1>1. task[w] \in Nat /\ phase = "walking" /\ task[w] < Total
  BY DEF CensusTypeOK, InStep
<1>2. /\ BinaryAt(task[w]) \in Binaries
      /\ TestAt(task[w]) \in TestsOf(BinaryAt(task[w]))
  BY <1>1, SlotHolds
<1>3. TestAt(task[w]) \in Nat
  BY <1>2, CensusAssumption DEF TestsOf
<1>4. reach[BinaryAt(task[w])] \in [TestsOf(BinaryAt(task[w])) -> SUBSET Sites]
  BY <1>2 DEF CensusTypeOK
<1> QED
  BY <1>1, <1>2, <1>3, <1>4

-----------------------------------------------------------------------------
(* The walk: its steps.                                                     *)

\* Every variable starts with its type.
LEMMA WalkStartsTyped ==
  ASSUME CensusInit
  PROVE  CensusTypeOK
<1>1. ASSUME NEW b \in Binaries
      PROVE  reach[b] \in [TestsOf(b) -> SUBSET Sites]
  <2>1. PICK n \in {Tests[c] : c \in Binaries} : reach[b] \in [1 .. n -> SUBSET Sites]
    BY DEF CensusInit
  <2>2. DOMAIN reach[b] = TestsOf(b) /\ DOMAIN reach[b] = 1 .. n
    BY <2>1 DEF CensusInit
  <2> QED
    BY <2>1, <2>2
<1>2. /\ phase \in {"listing", "walking", "mapped"}
      /\ asked \subseteq Binaries /\ listed \in Seq(Binaries)
      /\ pc \in [Workers -> {"idle", "taken", "sampling", "leaving", "done"}]
      /\ task \in [Workers -> Nat] /\ next \in Nat /\ launches \in Nat
      /\ attributed \in [Binaries -> SUBSET (Sites \X Nat)]
      /\ spoiled \subseteq Binaries /\ census \subseteq Binaries
      /\ remaining \in [Binaries -> Int] /\ completed \in Nat
  BY CensusAssumption DEF CensusInit
<1> QED
  BY <1>1, <1>2 DEF CensusTypeOK

\* The walk starts in its invariant.
LEMMA WalkStarts ==
  ASSUME CensusInit
  PROVE  WalkInv
<1>1. CensusTypeOK
  BY WalkStartsTyped
<1>2. Truthful
  BY DEF CensusInit, Truthful
<1>3. NothingMissed
  BY DEF CensusInit, NothingMissed
<1>4. InStep
  BY DEF CensusInit, InStep
<1>5. Complete
  BY DEF CensusInit, Complete
<1> QED
  BY <1>1, <1>2, <1>3, <1>4, <1>5 DEF WalkInv

\* Every step keeps the types.
LEMMA WalkTypeKept ==
  ASSUME CensusTypeOK, InStep, CensusNext
  PROVE  CensusTypeOK'
<1> USE CensusAssumption DEF CensusTypeOK
<1>0. \A b \in Binaries : Tests[b] \in Nat
  OBVIOUS
<1>1. ASSUME NEW b \in Binaries, Unlisted(b) PROVE CensusTypeOK'
  BY <1>1 DEF Unlisted, worker, walked
<1>2. ASSUME NEW b \in Binaries, Listed(b) PROVE CensusTypeOK'
  <2>1. CASE Tests[b] = 0
    BY <1>2, <2>1 DEF Listed, worker, walked
  <2>2. CASE Tests[b] # 0
    <3>1. Append(listed, b) \in Seq(Binaries)
      OBVIOUS
    <3> QED
      BY <1>2, <2>2, <3>1 DEF Listed, worker, walked
  <2> QED
    BY <2>1, <2>2
<1>3. CASE Walk
  BY <1>3 DEF Walk, worker, walked
<1>4. CASE Map
  <2>1. {listed[k] : k \in DOMAIN listed} \subseteq Binaries
    OBVIOUS
  <2> QED
    BY <1>4, <2>1 DEF Map, worker, walked
<1>5. ASSUME NEW w \in Workers, Take(w) PROVE CensusTypeOK'
  BY <1>5 DEF Take
<1>6. ASSUME NEW w \in Workers, Skip(w) PROVE CensusTypeOK'
  BY <1>6 DEF Skip, walked
<1>7. ASSUME NEW w \in Workers, Launch(w) PROVE CensusTypeOK'
  BY <1>7 DEF Launch
<1>8. ASSUME NEW w \in Workers, Attribute(w) PROVE CensusTypeOK'
  <2> DEFINE b == BinaryAt(task[w])
             t == TestAt(task[w])
             more == {<<site, t>> : site \in reach[b][t]}
  <2>1. b \in Binaries /\ t \in Nat /\ reach[b][t] \subseteq Sites
    BY <1>8, AtATest DEF Attribute
  <2>2. attributed' = [attributed EXCEPT ![b] = @ \union more]
    BY <1>8 DEF Attribute
  <2> HIDE DEF b, t
  <2>3. more \subseteq Sites \X Nat
    BY <2>1
  <2> HIDE DEF more
  <2>4. attributed' \in [Binaries -> SUBSET (Sites \X Nat)]
    BY <2>1, <2>2, <2>3
  <2> QED
    BY <1>8, <2>4 DEF Attribute
<1>9. ASSUME NEW w \in Workers, Spoil(w) PROVE CensusTypeOK'
  <2>1. BinaryAt(task[w]) \in Binaries
    BY <1>9, AtATest DEF Spoil
  <2> QED
    BY <1>9, <2>1 DEF Spoil
<1>10. ASSUME NEW w \in Workers, Leave(w) PROVE CensusTypeOK'
  <2>1. BinaryAt(task[w]) \in Binaries
    BY <1>10, AtATest DEF Leave
  <2>2. remaining' \in [Binaries -> Int]
    BY <1>10, <2>1 DEF Leave
  <2> QED
    BY <1>10, <2>2 DEF Leave
<1> QED
  BY <1>1, <1>2, <1>3, <1>4, <1>5, <1>6, <1>7, <1>8, <1>9, <1>10 DEF CensusNext, Worker

\* What reaches which site is settled before the walk, and the queue while it is walked.
LEMMA SettledBefore ==
  ASSUME CensusNext
  PROVE  /\ reach' = reach
         /\ phase # "listing" => listed' = listed /\ phase' # "listing"
<1> USE DEF CensusNext, Worker, Unlisted, Listed, Walk, Map, Take, Skip, Launch, Attribute, Spoil, Leave
<1> QED
  BY DEF worker, walked

\* Only a worker that has sampled a test attributes anything, and nothing is taken back.
LEMMA AttributedGrows ==
  ASSUME CensusTypeOK, InStep, CensusNext
  PROVE  /\ \A b \in Binaries : attributed[b] \subseteq attributed'[b]
         /\ \A b \in Binaries : \A site \in Sites, t \in Nat :
              <<site, t>> \in attributed'[b] =>
                \/ <<site, t>> \in attributed[b]
                \/ t \in TestsOf(b) /\ site \in reach[b][t]
<1>1. CASE \E w \in Workers : Attribute(w)
  <2>1. PICK w \in Workers : Attribute(w)
    BY <1>1
  <2> DEFINE at_b == BinaryAt(task[w])
             at_t == TestAt(task[w])
  <2>2. at_b \in Binaries /\ at_t \in TestsOf(at_b)
    BY <2>1, AtATest DEF Attribute
  <2>3. attributed' = [attributed EXCEPT ![at_b] = @ \union {<<site, at_t>> : site \in reach[at_b][at_t]}]
    BY <2>1 DEF Attribute
  <2> HIDE DEF at_b, at_t
  <2> QED
    BY <2>2, <2>3 DEF CensusTypeOK
<1>2. CASE ~\E w \in Workers : Attribute(w)
  <2>1. attributed' = attributed
    BY <1>2 DEF CensusNext, Worker, Unlisted, Listed, Walk, Map, Take, Skip, Launch, Spoil, Leave, walked
  <2> QED
    BY <2>1
<1> QED
  BY <1>1, <1>2

\* No step attributes to a test what it does not reach.
LEMMA TruthfulKept ==
  ASSUME CensusTypeOK, InStep, Truthful, CensusNext
  PROVE  Truthful'
BY SettledBefore, AttributedGrows DEF Truthful, TestsOf

\* Every step leaves the workers where the walk allows them.
LEMMA InStepKept ==
  ASSUME CensusTypeOK, InStep, CensusNext
  PROVE  InStep'
<1> USE DEF CensusTypeOK, InStep
<1>1. ASSUME NEW b \in Binaries, Unlisted(b) PROVE InStep'
  BY <1>1 DEF Unlisted, worker, walked
<1>2. ASSUME NEW b \in Binaries, Listed(b) PROVE InStep'
  BY <1>2 DEF Listed, worker, walked
<1>3. CASE Walk
  BY <1>3 DEF Walk, worker, walked
<1>4. CASE Map
  <2>1. Total' = Total
    BY <1>4, SameQueue DEF Map
  <2> QED
    BY <1>4, <2>1 DEF Map, worker, walked
<1>5. ASSUME NEW w \in Workers, Take(w) PROVE InStep'
  <2>1. Total' = Total
    BY <1>5, SameQueue DEF Take
  <2>2. next' = next + 1 /\ task' = [task EXCEPT ![w] = next] /\ phase = "walking" /\ phase' = phase
        /\ pc' = [pc EXCEPT ![w] = IF next >= Total THEN "done" ELSE "taken"] /\ census' = census
    BY <1>5 DEF Take
  <2>3. Total \in Nat
    BY OffsetsRise, OffsetsMeaning DEF Total
  <2> QED
    BY <2>1, <2>2, <2>3
<1>6. ASSUME NEW w \in Workers, Skip(w) \/ Launch(w) \/ Attribute(w) \/ Spoil(w) \/ Leave(w)
      PROVE  InStep'
  <2>1. Total' = Total
    BY <1>6, SameQueue DEF Skip, Launch, Attribute, Spoil, Leave
  <2>2. /\ phase' = phase /\ next' = next /\ census' = census /\ task' = task
        /\ pc[w] \in {"taken", "sampling", "leaving"}
        /\ \E to \in {"sampling", "leaving", "idle"} : pc' = [pc EXCEPT ![w] = to]
    BY <1>6 DEF Skip, Launch, Attribute, Spoil, Leave, walked
  <2> QED
    BY <2>1, <2>2
<1> QED
  BY <1>1, <1>2, <1>3, <1>4, <1>5, <1>6 DEF CensusNext, Worker

\* What is spoiled, or seen to its end, stays so.
LEMMA EndsStand ==
  ASSUME CensusTypeOK, InStep, CensusNext, phase # "listing",
         NEW i \in Nat, i < Total,
         BinaryAt(i) \in spoiled \/ SeenToEnd(i)
  PROVE  BinaryAt(i)' \in spoiled' \/ SeenToEnd(i)'
<1>1. BinaryAt(i)' = BinaryAt(i) /\ TestAt(i)' = TestAt(i) /\ reach' = reach
  BY SettledBefore, SameQueue
<1>2. BinaryAt(i) \in Binaries
  BY SlotHolds
<1>3. spoiled \subseteq spoiled'
  BY DEF CensusNext, Worker, Unlisted, Listed, Walk, Map, Take, Skip, Launch, Attribute, Spoil, Leave, walked
<1> QED
  BY <1>1, <1>2, <1>3, AttributedGrows DEF SeenToEnd

\* Every step leaves every place that was taken accounted for.
LEMMA NothingMissedKept ==
  ASSUME CensusTypeOK, InStep, NothingMissed, CensusNext
  PROVE  NothingMissed'
<1>1. CASE phase = "listing"
  <2>1. next' = 0
    BY <1>1 DEF InStep, CensusNext, Worker, Unlisted, Listed, Walk, Map, Take, Skip, Launch, Attribute, Spoil, Leave, walked
  <2> QED
    BY <2>1 DEF NothingMissed
<1>2. CASE phase # "listing"
  <2>1. SUFFICES ASSUME NEW i \in Nat, i < next', i < Total'
                 PROVE  BinaryAt(i)' \in spoiled' \/ SeenToEnd(i)' \/ Awaited(i)'
    BY DEF NothingMissed
  <2>2. Total' = Total /\ BinaryAt(i)' = BinaryAt(i) /\ TestAt(i)' = TestAt(i) /\ reach' = reach
    BY <1>2, SettledBefore, SameQueue
  <2>3. CASE BinaryAt(i) \in spoiled \/ SeenToEnd(i)
    BY <1>2, <2>1, <2>2, <2>3, EndsStand
  <2>4. CASE ~(BinaryAt(i) \in spoiled \/ SeenToEnd(i))
    <3>1. next \in Nat /\ (i < next => Awaited(i))
      BY <2>1, <2>2, <2>4 DEF NothingMissed, CensusTypeOK
    <3>2. CASE Awaited(i)
      <4>1. PICK v \in Workers : pc[v] \in {"taken", "sampling"} /\ task[v] = i
        BY <3>2 DEF Awaited
      <4>2. CASE pc'[v] \in {"taken", "sampling"} /\ task'[v] = i
        BY <4>2 DEF Awaited
      <4>3. CASE ~(pc'[v] \in {"taken", "sampling"} /\ task'[v] = i)
        <5>1. Skip(v) \/ Attribute(v) \/ Spoil(v)
          BY <4>1, <4>3 DEF CensusTypeOK, CensusNext, Worker, Unlisted, Listed, Walk, Map, Take, Skip,
             Launch, Attribute, Spoil, Leave, worker
        <5>2. CASE Skip(v)
          BY <2>4, <4>1, <5>2 DEF Skip
        <5>3. CASE Attribute(v)
          <6>1. BinaryAt(i) \in Binaries
            BY <2>1, <2>2, SlotHolds
          <6>2. attributed' = [attributed EXCEPT ![BinaryAt(i)] =
                  @ \union {<<site, TestAt(i)>> : site \in reach[BinaryAt(i)][TestAt(i)]}]
            BY <4>1, <5>3 DEF Attribute
          <6> QED
            BY <2>2, <6>1, <6>2 DEF SeenToEnd, CensusTypeOK
        <5>4. CASE Spoil(v)
          BY <2>2, <4>1, <5>4 DEF Spoil
        <5> QED
          BY <5>1, <5>2, <5>3, <5>4
      <4> QED
        BY <4>2, <4>3
    <3>3. CASE ~Awaited(i)
      <4>1. next' # next /\ i >= next
        BY <2>1, <3>1, <3>3
      <4>2. PICK w \in Workers : Take(w)
        BY <4>1 DEF CensusNext, Worker, Unlisted, Listed, Walk, Map, Skip, Launch, Attribute, Spoil, Leave, walked
      <4>3. i = next
        BY <2>1, <3>1, <4>1, <4>2 DEF Take
      <4>4. ~(next >= Total)
        BY <2>1, <2>2, <3>1, <4>3, OffsetsRise, OffsetsMeaning DEF Total
      <4>5. pc'[w] = "taken" /\ task'[w] = i
        BY <4>2, <4>3, <4>4 DEF Take, CensusTypeOK
      <4> QED
        BY <4>5 DEF Awaited
    <3> QED
      BY <3>2, <3>3
  <2> QED
    BY <2>3, <2>4
<1> QED
  BY <1>1, <1>2

\* Every step leaves what the census knows complete.
LEMMA CompleteKept ==
  ASSUME WalkInv, CensusNext
  PROVE  Complete'
<1> USE DEF WalkInv
<1>1. reach' = reach
  BY SettledBefore
<1>2. \A b \in Binaries : attributed[b] \subseteq attributed'[b]
  BY AttributedGrows
<1>3. SUFFICES ASSUME NEW b \in census', NEW t \in TestsOf(b), NEW site \in reach[b][t]
               PROVE  <<site, t>> \in attributed'[b]
  BY <1>1 DEF Complete, TestsOf
<1>4. CASE b \in census
  BY <1>2, <1>3, <1>4 DEF Complete, CensusTypeOK
<1>5. CASE b \notin census
  <2>1. Map \/ \E c \in Binaries : Listed(c)
    BY <1>3, <1>5 DEF CensusNext, Worker, Unlisted, Walk, Take, Skip, Launch, Attribute, Spoil, Leave, walked
  <2>2. ASSUME NEW c \in Binaries, Listed(c)
        PROVE  FALSE
    <3>1. b = c /\ Tests[b] = 0
      BY <1>3, <1>5, <2>2 DEF Listed
    <3> QED
      BY <3>1, <1>3 DEF TestsOf
  <2>3. CASE Map
    <3>1. PICK k \in DOMAIN listed : b = listed[k] /\ b \notin spoiled
      BY <1>3, <1>5, <2>3 DEF Map
    <3> DEFINE i == Offsets[k] + t - 1
    <3>2. i \in Nat /\ i < Total /\ BinaryAt(i) = b /\ TestAt(i) = t
      BY <1>3, <3>1, PlaceOf
    <3> HIDE DEF i
    <3>3. next >= Total /\ next \in Nat /\ ~Awaited(i)
      BY <2>3, CensusAssumption DEF Map, InStep, Awaited, CensusTypeOK
    <3>4. Total \in Nat
      BY OffsetsRise, OffsetsMeaning DEF Total
    <3>5. SeenToEnd(i)
      BY <3>1, <3>2, <3>3, <3>4 DEF NothingMissed
    <3> QED
      BY <1>2, <1>3, <3>2, <3>5, <2>3 DEF SeenToEnd, Map, walked
  <2> QED
    BY <2>1, <2>2, <2>3
<1> QED
  BY <1>4, <1>5

-----------------------------------------------------------------------------
(* The walk: what follows.                                                  *)

\* Every step of the walk keeps the invariant, stuttering included.
LEMMA WalkKept == WalkInv /\ [CensusNext]_censusVars => WalkInv'
<1> SUFFICES ASSUME WalkInv, [CensusNext]_censusVars PROVE WalkInv'
  OBVIOUS
<1>1. CASE CensusNext
  BY <1>1, WalkTypeKept, TruthfulKept, NothingMissedKept, InStepKept, CompleteKept DEF WalkInv
<1>2. CASE UNCHANGED censusVars
  <2>1. /\ reach' = reach /\ phase' = phase /\ asked' = asked /\ listed' = listed /\ next' = next
        /\ pc' = pc /\ task' = task /\ launches' = launches /\ attributed' = attributed
        /\ spoiled' = spoiled /\ remaining' = remaining /\ completed' = completed /\ census' = census
    BY <1>2 DEF censusVars, worker, walked
  <2>2. /\ Total' = Total
        /\ \A i : BinaryAt(i)' = BinaryAt(i) /\ TestAt(i)' = TestAt(i)
    BY <2>1, SameQueue
  <2>3. CensusTypeOK' /\ Truthful' /\ Complete'
    BY <2>1 DEF WalkInv, CensusTypeOK, Truthful, Complete
  <2>4. NothingMissed' /\ InStep'
    BY <2>1, <2>2 DEF WalkInv, NothingMissed, SeenToEnd, Awaited, InStep
  <2> QED
    BY <2>3, <2>4 DEF WalkInv
<1> QED
  BY <1>1, <1>2

\* What the walk keeps: every place of the queue that was taken is seen to its end, or
\* its binary is spoiled, or a worker is at it; and what is attributed is true.
\* (walk_with)
THEOREM WalkInvariance == CensusSpec => []WalkInv
BY WalkStarts, WalkKept, PTL DEF CensusSpec

\* Every variable of the walk keeps its type, however many binaries and workers.
\* (take, walk_with)
THEOREM WalkTypeCorrect == CensusSpec => []CensusTypeOK
<1>1. WalkInv => CensusTypeOK
  BY DEF WalkInv
<1> QED
  BY <1>1, WalkInvariance, PTL

\* What the census says of a binary is the tests that reach the site, all of them and
\* no other, whichever worker sampled which and whatever was refused meanwhile.
\* (walk_with, Census::reaching)
THEOREM CensusIsExact == CensusSpec => []ReachingIsExact
<1>1. WalkInv => ReachingIsExact
  <2> SUFFICES ASSUME WalkInv, NEW b \in Binaries, NEW site \in Sites, b \in census
               PROVE  TestsAt(b, site) = {t \in TestsOf(b) : site \in reach[b][t]}
    BY DEF ReachingIsExact, Reaching
  <2>1. ASSUME NEW t \in TestsOf(b)
        PROVE  <<site, t>> \in attributed[b] <=> site \in reach[b][t]
    <3>1. t \in Nat
      BY CensusAssumption DEF TestsOf
    <3> QED
      BY <3>1 DEF WalkInv, Truthful, Complete
  <2> QED
    BY <2>1 DEF TestsAt
<1> QED
  BY <1>1, WalkInvariance, PTL
=============================================================================
