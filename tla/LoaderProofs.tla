----------------------------- MODULE LoaderProofs -----------------------------
(***************************************************************************)
(* Proofs about Loader for every set of files, every directory tree, every *)
(* program and every number of machines and frames: the static stacks      *)
(* follow the C++ stack, a file has one module, and the loader implements  *)
(* the registry of modules.                                                *)
(***************************************************************************)
EXTENDS Loader, FiniteSetTheorems, TLAPS

Run == [vm : VMs, frames : Seq(VMs)]

-----------------------------------------------------------------------------
(* Sequences as stacks.                                                    *)

LEMMA SequenceFacts ==
  ASSUME NEW D, NEW s \in Seq(D)
  PROVE  /\ Len(s) \in Nat /\ DOMAIN s = 1..Len(s)
         /\ \A i \in 1..Len(s) : s[i] \in D
         /\ s = << >> <=> Len(s) = 0
OBVIOUS

LEMMA LastFacts ==
  ASSUME NEW D, NEW s \in Seq(D), s # << >>
  PROVE  /\ Len(s) \in Nat /\ Len(s) >= 1 /\ Len(s) \in 1..Len(s)
         /\ Last(s) = s[Len(s)] /\ Last(s) \in D
BY DEF Last

LEMMA OneEntry ==
  ASSUME NEW D, NEW e \in D
  PROVE  <<e>> \in Seq(D) /\ Len(<<e>>) = 1 /\ <<e>>[1] = e
OBVIOUS

LEMMA FirstEntries ==
  ASSUME NEW D, NEW s \in Seq(D), NEW k \in 0..Len(s)
  PROVE  /\ SubSeq(s, 1, k) \in Seq(D) /\ Len(SubSeq(s, 1, k)) = k
         /\ \A i \in 1..k : SubSeq(s, 1, k)[i] = s[i]
OBVIOUS

LEMMA FrontFacts ==
  ASSUME NEW D, NEW s \in Seq(D), s # << >>
  PROVE  /\ Front(s) \in Seq(D) /\ Len(Front(s)) = Len(s) - 1
         /\ \A i \in 1..(Len(s) - 1) : Front(s)[i] = s[i]
<1>1. Len(s) - 1 \in 0..Len(s)
  BY SequenceFacts
<1>2. QED
  BY <1>1, FirstEntries DEF Front

LEMMA AppendFacts ==
  ASSUME NEW D, NEW s \in Seq(D), NEW e \in D
  PROVE  /\ Append(s, e) \in Seq(D) /\ Len(Append(s, e)) = Len(s) + 1
         /\ \A i \in 1..Len(s) : Append(s, e)[i] = s[i]
         /\ Append(s, e)[Len(s) + 1] = e
OBVIOUS

-----------------------------------------------------------------------------
(* The state.                                                              *)

LEMMA RunningFacts ==
  ASSUME TypeOK, LoadsNest
  PROVE  /\ Len(runs) \in Nat /\ Len(runs) >= 1 /\ runs # << >> /\ runs \in Seq(Run)
         /\ Running \in Run /\ Running = runs[Len(runs)]
         /\ Vm = runs[Len(runs)].vm /\ Vm \in VMs /\ Vm <= Len(moduleVMs)
         /\ Running.frames \in Seq(VMs) /\ Running.frames # << >> /\ Unit \in VMs
<1>1. Len(loadingStack) \in Nat /\ Len(runs) \in Nat /\ runs \in Seq(Run)
  BY SequenceFacts DEF TypeOK, Run
<1>2. Len(runs) >= 1 /\ runs # << >>
  BY <1>1 DEF LoadsNest
<1>3. Running = runs[Len(runs)] /\ Running \in Run /\ Len(runs) \in 1..Len(runs)
  BY <1>1, <1>2, LastFacts DEF Running
<1>4. Running.frames \in Seq(VMs) /\ Running.vm \in VMs
  BY <1>3 DEF Run
<1>5. Running.frames # << >> /\ Vm <= Len(moduleVMs)
  BY <1>3 DEF LoadsNest, Vm
<1>6. Unit \in VMs
  BY <1>4, <1>5, LastFacts DEF Unit
<1>7. QED
  BY <1>1, <1>2, <1>3, <1>4, <1>5, <1>6 DEF Vm

(* The lengths of the stacks.                                              *)
LEMMA Depths ==
  ASSUME TypeOK, LoadsNest
  PROVE  /\ Len(loadingStack) \in Nat /\ Len(baseDirs) \in Nat /\ Len(runs) \in Nat /\ Len(moduleVMs) \in Nat
         /\ Len(runs) = Len(loadingStack) + 1 /\ Len(baseDirs) = Len(runs)
         /\ loadingStack \in Seq(Keys) /\ baseDirs \in Seq(Dirs) /\ moduleVMs \in Seq(Keys)
BY SequenceFacts DEF TypeOK, LoadsNest

(* A machine that loads a file is the program's, or was made for the file, *)
(* which is not in the cache.                                              *)
LEMMA LoadingMachine ==
  ASSUME IInv, NEW i \in 2..Len(runs)
  PROVE  /\ runs[i].vm \in 1..Len(moduleVMs) /\ runs[i].vm \in VMs
         /\ i - 1 \in 1..Len(loadingStack)
         /\ moduleVMs[runs[i].vm] = loadingStack[i - 1]
         /\ moduleVMs[runs[i].vm] \in Keys
         /\ moduleCache[moduleVMs[runs[i].vm]] = 0
<1>1. Len(runs) \in Nat /\ Len(loadingStack) \in Nat /\ Len(moduleVMs) \in Nat /\ Len(runs) = Len(loadingStack) + 1
  BY Depths DEF IInv
<1>2. i \in 1..Len(runs) /\ i - 1 \in 1..Len(loadingStack)
  BY <1>1
<1>3. runs[i] \in Run
  BY <1>2, RunningFacts, SequenceFacts DEF IInv
<1>4. runs[i].vm \in Nat /\ runs[i].vm \in VMs
  BY <1>3 DEF Run, VMs
<1>5. runs[i].vm <= Len(moduleVMs) /\ runs[i].vm # 0 /\ moduleVMs[runs[i].vm] = loadingStack[i - 1]
  BY <1>2 DEF IInv, LoadsNest
<1>6. runs[i].vm \in 1..Len(moduleVMs)
  BY <1>1, <1>4, <1>5
<1>7. moduleVMs[runs[i].vm] \in Keys
  BY <1>6, SequenceFacts DEF IInv, TypeOK
<1>8. moduleCache[loadingStack[i - 1]] = 0
  BY <1>2 DEF IInv, NoLoadTwice
<1>9. QED
  BY <1>2, <1>4, <1>5, <1>6, <1>7, <1>8

(* The machine on top, when it is not the program's.                       *)
LEMMA TopMachine ==
  ASSUME IInv, Len(runs) > 1
  PROVE  /\ Vm \in 1..Len(moduleVMs) /\ Vm # 0 /\ Vm \in VMs
         /\ loadingStack # << >>
         /\ moduleVMs[Vm] = Last(loadingStack)
         /\ moduleVMs[Vm] = loadingStack[Len(loadingStack)]
         /\ moduleVMs[Vm] \in Keys
         /\ moduleCache[moduleVMs[Vm]] = 0
<1>1. Len(runs) \in 2..Len(runs) /\ Len(runs) - 1 = Len(loadingStack) /\ loadingStack \in Seq(Keys)
        /\ Len(moduleVMs) \in Nat
  BY Depths DEF IInv
<1>2. Vm = runs[Len(runs)].vm
  BY RunningFacts DEF IInv
<1>3. Vm \in 1..Len(moduleVMs) /\ Vm \in VMs /\ moduleVMs[Vm] = loadingStack[Len(loadingStack)]
        /\ moduleVMs[Vm] \in Keys /\ moduleCache[moduleVMs[Vm]] = 0 /\ Len(loadingStack) \in 1..Len(loadingStack)
  BY <1>1, <1>2, LoadingMachine
<1>4. Vm # 0
  BY <1>1, <1>3
<1>5. loadingStack # << >>
  BY <1>1, <1>3, SequenceFacts
<1>6. QED
  BY <1>1, <1>3, <1>4, <1>5, LastFacts

-----------------------------------------------------------------------------
(* What the steps change.                                                  *)

(* Calls and returns leave the loads as they are.                          *)
LEMMA SameLoads ==
  ASSUME IInv, UNCHANGED <<statics, whole>>, Len(runs') = Len(runs),
         \A i \in 1..Len(runs) : runs'[i].vm = runs[i].vm /\ runs'[i].frames # << >>
  PROVE  LoadsNest' /\ NoLoadTwice' /\ CacheIsLast'
<1>1. UNCHANGED <<moduleVMs, moduleCache, loadingStack, baseDirs>>
  BY DEF statics
<1>2. Len(runs) \in Nat /\ Len(runs) >= 1
  BY RunningFacts DEF IInv
<1>3. 1 \in 1..Len(runs) /\ 2..Len(runs) \subseteq 1..Len(runs)
  BY <1>2
<1>4. LoadsNest'
  BY <1>1, <1>3 DEF IInv, LoadsNest
<1>5. NoLoadTwice'
  BY <1>1, <1>3 DEF IInv, NoLoadTwice
<1>6. CacheIsLast'
  BY <1>1 DEF IInv, CacheIsLast
<1>7. QED
  BY <1>4, <1>5, <1>6

LEMMA BindFacts ==
  ASSUME TypeOK, NEW v \in VMs, NEW key \in Keys, NEW module \in VMs, NEW members \in SUBSET VMs,
         Bind(v, key, module, members)
  PROVE  /\ bound' \in [VMs -> [Keys -> VMs]] /\ globals' \in [VMs -> SUBSET VMs]
         /\ \A w \in VMs, k \in Keys : bound'[w][k] = bound[w][k] \/ (k = key /\ bound'[w][k] = module)
         /\ \A w \in VMs : globals'[w] \subseteq globals[w] \cup members
<1>1. CASE bound' = [bound EXCEPT ![v][key] = module] /\ UNCHANGED globals
  <2>1. bound' \in [VMs -> [Keys -> VMs]]
    BY <1>1 DEF TypeOK
  <2>2. \A w \in VMs, k \in Keys : bound'[w][k] = IF w = v /\ k = key THEN module ELSE bound[w][k]
    BY <1>1 DEF TypeOK
  <2>3. globals' \in [VMs -> SUBSET VMs] /\ globals' = globals
    BY <1>1 DEF TypeOK
  <2>4. QED
    BY <2>1, <2>2, <2>3
<1>2. CASE \E names \in SUBSET members :
             globals' = [globals EXCEPT ![v] = @ \cup names] /\ UNCHANGED bound
  <2>1. PICK names \in SUBSET members :
             globals' = [globals EXCEPT ![v] = @ \cup names] /\ UNCHANGED bound
    BY <1>2
  <2>2. globals' \in [VMs -> SUBSET VMs]
    BY <2>1 DEF TypeOK
  <2>3. \A w \in VMs : globals'[w] = IF w = v THEN globals[w] \cup names ELSE globals[w]
    BY <2>1 DEF TypeOK
  <2>4. bound' \in [VMs -> [Keys -> VMs]] /\ bound' = bound
    BY <2>1 DEF TypeOK
  <2>5. QED
    BY <2>1, <2>2, <2>3, <2>4
<1>3. QED
  BY <1>1, <1>2 DEF Bind

-----------------------------------------------------------------------------
(* One lemma for each action.                                              *)

LEMMA InitIInv == Init => IInv
<1> SUFFICES ASSUME Init PROVE IInv
  OBVIOUS
<1> USE BoundAssumption
<1>1. 0 \in VMs
  BY DEF VMs
<1>2. PICK d \in Dirs : baseDirs = <<d>>
  BY DEF Init
<1>3. [vm |-> 0, frames |-> <<0>>] \in Run
  BY <1>1 DEF Run
<1>4. runs \in Seq(Run) /\ Len(runs) = 1 /\ runs[1].vm = 0 /\ runs[1].frames # << >>
  <2>1. runs \in Seq(Run) /\ Len(runs) = 1 /\ runs[1] = [vm |-> 0, frames |-> <<0>>]
    BY <1>3, OneEntry DEF Init
  <2>2. <<0>> # << >>
    OBVIOUS
  <2>3. QED
    BY <2>1, <2>2
<1>5. TypeOK
  <2>1. moduleVMs \in Seq(Keys) /\ loadingStack \in Seq(Keys) /\ Len(moduleVMs) <= MaxVMs /\ baseDirs \in Seq(Dirs)
    BY <1>2 DEF Init
  <2>2. moduleCache \in [Keys -> VMs] /\ globals \in [VMs -> SUBSET VMs] /\ exports \in [VMs -> SUBSET VMs]
          /\ bound \in [VMs -> [Keys -> VMs]] /\ moduleGlobals \in [VMs -> VMs] /\ whole \subseteq VMs
    BY <1>1 DEF Init
  <2>3. QED
    BY <1>4, <2>1, <2>2 DEF TypeOK, Run
<1>6. Len(moduleVMs) = 0 /\ Len(loadingStack) = 0 /\ Len(baseDirs) = 1 /\ 2..1 = {} /\ 1..1 = {1} /\ 1..0 = {}
  BY <1>2 DEF Init
<1>7. LoadsNest
  BY <1>4, <1>6 DEF LoadsNest
<1>8. NoLoadTwice
  BY <1>4, <1>6 DEF NoLoadTwice
<1>9. CacheIsLast /\ OneModulePerFile /\ ExportsReadAnExporter
  BY DEF Init, CacheIsLast, OneModulePerFile, ExportsReadAnExporter
<1>10. QED
  BY <1>5, <1>7, <1>8, <1>9 DEF IInv

LEMMA DefineIInv ==
  ASSUME IInv, Define
  PROVE  IInv'
<1>1. Vm \in VMs /\ Vm <= Len(moduleVMs) /\ runs \in Seq(Run)
  BY RunningFacts DEF IInv
<1>2. UNCHANGED <<statics, runs, bound, exports, moduleGlobals, whole>>
        /\ globals' = [globals EXCEPT ![Vm] = @ \cup {Vm}]
  BY DEF Define
<1>3. UNCHANGED <<moduleVMs, moduleCache, loadingStack, baseDirs>>
  BY <1>2 DEF statics
<1>4. globals' \in [VMs -> SUBSET VMs]
        /\ \A v \in VMs : globals'[v] = IF v = Vm THEN globals[v] \cup {v} ELSE globals[v]
  BY <1>1, <1>2 DEF IInv, TypeOK
<1>5. TypeOK'
  BY <1>2, <1>3, <1>4 DEF IInv, TypeOK, VMs
<1>6. LoadsNest' /\ NoLoadTwice' /\ CacheIsLast'
  <2>1. \A i \in 1..Len(runs) : runs[i].frames # << >>
    BY DEF IInv, LoadsNest
  <2>2. QED
    BY <1>2, <2>1, SameLoads
<1>7. OneModulePerFile'
  BY <1>2, <1>3 DEF IInv, OneModulePerFile, VMs
<1>8. ExportsReadAnExporter'
  BY <1>2, <1>3 DEF IInv, ExportsReadAnExporter, VMs
<1>9. QED
  BY <1>5, <1>6, <1>7, <1>8 DEF IInv

(* A call and a return change the frames of the machine on top.            *)
LEMMA FramesIInv ==
  ASSUME IInv, NEW F \in Seq(VMs), F # << >>,
         runs' = [runs EXCEPT ![Len(runs)].frames = F],
         UNCHANGED <<statics, globals, bound, exports, moduleGlobals, whole>>
  PROVE  IInv'
<1>1. runs \in Seq(Run) /\ runs # << >>
  BY RunningFacts DEF IInv
<1>2. /\ runs' \in Seq(Run) /\ Len(runs') = Len(runs)
      /\ \A i \in 1..Len(runs) : runs'[i].vm = runs[i].vm
      /\ \A i \in 1..Len(runs) : runs'[i].frames = IF i = Len(runs) THEN F ELSE runs[i].frames
  <2> DEFINE r == [runs[Len(runs)] EXCEPT !.frames = F]
  <2>1. Len(runs) \in 1..Len(runs) /\ DOMAIN runs = 1..Len(runs) /\ \A i \in 1..Len(runs) : runs[i] \in Run
    BY <1>1, SequenceFacts, LastFacts
  <2>2. r \in Run /\ r.vm = runs[Len(runs)].vm /\ r.frames = F
    BY <2>1 DEF Run
  <2>3. runs' = [runs EXCEPT ![Len(runs)] = r]
    BY <2>1
  <2> HIDE DEF r
  <2>4. runs' \in Seq(Run) /\ Len(runs') = Len(runs) /\ \A i \in 1..Len(runs) : runs'[i] = IF i = Len(runs) THEN r ELSE runs[i]
    BY <1>1, <2>1, <2>2, <2>3
  <2>5. QED
    BY <2>1, <2>2, <2>4
<1>3. UNCHANGED <<moduleVMs, moduleCache, loadingStack, baseDirs>>
  BY DEF statics
<1>4. TypeOK'
  BY <1>2, <1>3 DEF IInv, TypeOK, VMs, Run
<1>5. LoadsNest' /\ NoLoadTwice' /\ CacheIsLast'
  <2>1. \A i \in 1..Len(runs) : runs'[i].frames # << >>
    BY <1>2 DEF IInv, LoadsNest
  <2>2. QED
    BY <1>2, <2>1, SameLoads
<1>6. OneModulePerFile'
  BY <1>3 DEF IInv, OneModulePerFile, VMs
<1>7. ExportsReadAnExporter'
  BY <1>3 DEF IInv, ExportsReadAnExporter, VMs
<1>8. QED
  BY <1>4, <1>5, <1>6, <1>7 DEF IInv

LEMMA CallIInv ==
  ASSUME IInv, NEW u \in 0..Len(moduleVMs), Call(u)
  PROVE  IInv'
<1>1. Running = runs[Len(runs)] /\ Running.frames \in Seq(VMs) /\ Len(runs) \in Nat /\ Len(runs) >= 1 /\ runs \in Seq(Run)
  BY RunningFacts DEF IInv
<1>2. Len(moduleVMs) \in Nat /\ Len(moduleVMs) <= MaxVMs
  BY Depths DEF IInv, TypeOK
<1>3. u \in VMs
  BY <1>2, BoundAssumption DEF VMs
<1> DEFINE F == Append(runs[Len(runs)].frames, u)
<1>4. F \in Seq(VMs) /\ Len(F) = Len(Running.frames) + 1 /\ Len(Running.frames) \in Nat
  BY <1>1, <1>3, AppendFacts, SequenceFacts
<1>5. F # << >>
  BY <1>4
<1>6. runs' = [runs EXCEPT ![Len(runs)].frames = F]
  BY <1>1 DEF Call
<1>7. UNCHANGED <<statics, globals, bound, exports, moduleGlobals, whole>>
  BY DEF Call
<1> HIDE DEF F
<1>8. QED
  BY <1>4, <1>5, <1>6, <1>7, FramesIInv

LEMMA LeaveIInv ==
  ASSUME IInv, NEW n \in 1..MaxFrames, Leave(n)
  PROVE  IInv'
<1>1. Running = runs[Len(runs)] /\ Running.frames \in Seq(VMs)
  BY RunningFacts DEF IInv
<1> DEFINE F == SubSeq(runs[Len(runs)].frames, 1, n)
<1>2. Len(Running.frames) \in Nat /\ n \in 1..(Len(Running.frames) - 1)
  BY <1>1, SequenceFacts DEF Leave
<1>3. n \in 0..Len(Running.frames) /\ n # 0
  BY <1>2
<1>4. F \in Seq(VMs) /\ Len(F) = n
  BY <1>1, <1>3, FirstEntries
<1>5. F # << >>
  BY <1>3, <1>4
<1>6. runs' = [runs EXCEPT ![Len(runs)].frames = F]
  BY <1>1 DEF Leave
<1>7. UNCHANGED <<statics, globals, bound, exports, moduleGlobals, whole>>
  BY DEF Leave
<1> HIDE DEF F
<1>8. QED
  BY <1>4, <1>5, <1>6, <1>7, FramesIInv

LEMMA SetBaseDirIInv ==
  ASSUME IInv, NEW d \in Dirs, SetBaseDir(d)
  PROVE  IInv'
<1>1. /\ runs = <<[vm |-> 0, frames |-> <<0>>]>> /\ baseDirs' = <<d>>
      /\ UNCHANGED <<moduleVMs, moduleCache, loadingStack, runs, globals, bound, exports, moduleGlobals, whole>>
  BY DEF SetBaseDir
<1>2. Len(runs) = 1 /\ baseDirs' \in Seq(Dirs) /\ Len(baseDirs') = 1 /\ 2..1 = {}
  BY <1>1
<1>3. TypeOK'
  BY <1>1, <1>2 DEF IInv, TypeOK, VMs
<1>4. LoadsNest'
  BY <1>1, <1>2 DEF IInv, LoadsNest
<1>5. NoLoadTwice' /\ CacheIsLast'
  BY <1>1 DEF IInv, NoLoadTwice, CacheIsLast
<1>6. OneModulePerFile' /\ ExportsReadAnExporter'
  BY <1>1 DEF IInv, OneModulePerFile, ExportsReadAnExporter, VMs
<1>7. QED
  BY <1>3, <1>4, <1>5, <1>6 DEF IInv

LEMMA CachedIInv ==
  ASSUME IInv, NEW key \in Keys, Cached(key)
  PROVE  IInv'
<1> DEFINE m == moduleCache[key]
<1>1. /\ m # 0 /\ Bind(Vm, key, m, exports[m])
      /\ UNCHANGED <<statics, runs, exports, moduleGlobals, whole>>
  BY DEF Cached
<1>2. Vm \in VMs /\ m \in VMs /\ exports[m] \in SUBSET VMs /\ TypeOK
  BY RunningFacts DEF IInv, TypeOK
<1> HIDE DEF m
<1>3. /\ bound' \in [VMs -> [Keys -> VMs]] /\ globals' \in [VMs -> SUBSET VMs]
      /\ \A w \in VMs, k \in Keys : bound'[w][k] = bound[w][k] \/ (k = key /\ bound'[w][k] = m)
      /\ \A w \in VMs : globals'[w] \subseteq globals[w] \cup exports[m]
  BY <1>1, <1>2, BindFacts
<1>4. UNCHANGED <<moduleVMs, moduleCache, loadingStack, baseDirs>>
  BY <1>1 DEF statics
<1>5. TypeOK'
  BY <1>1, <1>3, <1>4 DEF IInv, TypeOK, VMs
<1>6. LoadsNest' /\ NoLoadTwice' /\ CacheIsLast'
  <2>1. \A i \in 1..Len(runs) : runs[i].frames # << >>
    BY DEF IInv, LoadsNest
  <2>2. QED
    BY <1>1, <2>1, SameLoads
<1>7. OneModulePerFile'
  <2>1. \A w \in VMs, k \in Keys : bound[w][k] \in {0, moduleCache[k]}
    BY DEF IInv, OneModulePerFile
  <2>2. m = moduleCache[key]
    BY DEF m
  <2>3. ASSUME NEW w \in VMs, NEW k \in Keys PROVE bound'[w][k] \in {0, moduleCache[k]}
    <3>1. bound'[w][k] = bound[w][k] \/ (k = key /\ bound'[w][k] = m)
      BY <1>3
    <3>2. QED
      BY <2>1, <2>2, <3>1
  <2>4. QED
    BY <1>4, <2>3 DEF OneModulePerFile, VMs
<1>8. ExportsReadAnExporter'
  BY <1>1, <1>4 DEF IInv, ExportsReadAnExporter, VMs
<1>9. QED
  BY <1>5, <1>6, <1>7, <1>8 DEF IInv

LEMMA BeginIInv ==
  ASSUME IInv, NEW key \in Keys, Begin(key)
  PROVE  IInv'
<1> DEFINE n == Len(runs)
           v == Len(moduleVMs) + 1
           r == [vm |-> v, frames |-> <<v>>]
<1>1. /\ moduleCache[key] = 0 /\ Len(moduleVMs) < MaxVMs
      /\ loadingStack' = Append(loadingStack, key)
      /\ baseDirs' = Append(baseDirs, DirOf[key])
      /\ moduleVMs' = Append(moduleVMs, key)
      /\ runs' = Append(runs, r)
      /\ UNCHANGED <<moduleCache, globals, bound, exports, moduleGlobals, whole>>
      /\ \A i \in 1..Len(loadingStack) : loadingStack[i] # key
  BY DEF Begin, Push, IsLoading
<1>2. /\ n \in Nat /\ n >= 1 /\ runs \in Seq(Run)
      /\ Len(loadingStack) \in Nat /\ n = Len(loadingStack) + 1 /\ Len(baseDirs) = n
      /\ Len(moduleVMs) \in Nat /\ loadingStack \in Seq(Keys) /\ baseDirs \in Seq(Dirs) /\ moduleVMs \in Seq(Keys)
  BY RunningFacts, Depths DEF IInv
<1>3. v \in Nat /\ v >= 1 /\ v <= MaxVMs
  BY <1>1, <1>2, BoundAssumption
<1>4. v \in VMs
  BY <1>3, BoundAssumption DEF VMs
<1>5. r \in Run /\ r.vm = v /\ r.frames # << >>
  <2>1. <<v>> \in Seq(VMs) /\ <<v>> # << >>
    BY <1>4, OneEntry
  <2>2. QED
    BY <1>4, <2>1 DEF Run
<1>6. DirOf[key] \in Dirs
  BY DirOfAssumption
<1> HIDE DEF r, n
<1>7. /\ runs' \in Seq(Run) /\ Len(runs') = n + 1
      /\ \A i \in 1..n : runs'[i] = runs[i]
      /\ runs'[n + 1] = r
  BY <1>1, <1>2, <1>5, AppendFacts DEF n
<1>8. /\ loadingStack' \in Seq(Keys) /\ Len(loadingStack') = n
      /\ \A i \in 1..(n - 1) : loadingStack'[i] = loadingStack[i]
      /\ loadingStack'[n] = key
  <2>1. n - 1 = Len(loadingStack) /\ Len(loadingStack) + 1 = n
    BY <1>2
  <2>2. QED
    BY <1>1, <1>2, <2>1, AppendFacts
<1>9. /\ baseDirs' \in Seq(Dirs) /\ Len(baseDirs') = n + 1
      /\ \A i \in 1..n : baseDirs'[i] = baseDirs[i]
      /\ baseDirs'[n + 1] = DirOf[key]
  <2>1. Len(baseDirs) = n
    BY <1>2
  <2>2. /\ Append(baseDirs, DirOf[key]) \in Seq(Dirs) /\ Len(Append(baseDirs, DirOf[key])) = Len(baseDirs) + 1
        /\ \A i \in 1..Len(baseDirs) : Append(baseDirs, DirOf[key])[i] = baseDirs[i]
        /\ Append(baseDirs, DirOf[key])[Len(baseDirs) + 1] = DirOf[key]
    BY <1>2, <1>6, AppendFacts
  <2>3. baseDirs' = Append(baseDirs, DirOf[key])
    BY <1>1
  <2>4. QED
    BY <2>1, <2>2, <2>3
<1>10. /\ moduleVMs' \in Seq(Keys) /\ Len(moduleVMs') = v
       /\ \A i \in 1..Len(moduleVMs) : moduleVMs'[i] = moduleVMs[i]
       /\ moduleVMs'[v] = key
  BY <1>1, <1>2, AppendFacts
<1> HIDE DEF v
<1>11. v = Len(moduleVMs) + 1
  BY DEF v
<1>12. TypeOK'
  <2>1. UNCHANGED <<moduleCache, globals, bound, exports, moduleGlobals, whole>> /\ TypeOK
    BY <1>1 DEF IInv
  <2>2. Len(moduleVMs') <= MaxVMs
    BY <1>3, <1>10
  <2>3. QED
    BY <2>1, <2>2, <1>7, <1>8, <1>9, <1>10 DEF TypeOK, VMs, Run
<1>13. LoadsNest'
  <2>1. Len(runs') = Len(loadingStack') + 1 /\ Len(baseDirs') = Len(runs')
    BY <1>7, <1>8, <1>9
  <2>2. runs'[1].vm = 0
    <3>1. 1 \in 1..n
      BY <1>2
    <3>2. QED
      BY <1>7, <3>1 DEF IInv, LoadsNest
  <2>3. ASSUME NEW i \in 1..Len(runs') PROVE runs'[i].vm <= Len(moduleVMs') /\ runs'[i].frames # << >>
    <3>1. CASE i \in 1..n
      <4>1. runs'[i] = runs[i] /\ runs[i].vm <= Len(moduleVMs) /\ runs[i].frames # << >>
        BY <1>7, <3>1 DEF IInv, LoadsNest, n
      <4>2. runs[i].vm \in Nat
        <5>1. n = Len(runs)
          BY DEF n
        <5>2. runs[i] \in Run
          BY <1>2, <3>1, <5>1, SequenceFacts
        <5>3. QED
          BY <5>2 DEF Run, VMs
      <4>3. QED
        BY <1>2, <1>10, <1>11, <4>1, <4>2
    <3>2. CASE i = n + 1
      BY <1>3, <1>5, <1>7, <1>10, <3>2
    <3>3. i \in 1..n \/ i = n + 1
      BY <1>2, <1>7
    <3>4. QED
      BY <3>1, <3>2, <3>3
  <2>4. ASSUME NEW i \in 2..Len(runs')
        PROVE  /\ runs'[i].vm # 0 /\ moduleVMs'[runs'[i].vm] = loadingStack'[i - 1]
               /\ baseDirs'[i] = DirOf[loadingStack'[i - 1]]
    <3>1. CASE i \in 2..n
      <4>1. i \in 1..n /\ i - 1 \in 1..(n - 1)
        BY <1>2, <3>1
      <4>2. runs'[i] = runs[i] /\ loadingStack'[i - 1] = loadingStack[i - 1] /\ baseDirs'[i] = baseDirs[i]
        BY <1>7, <1>8, <1>9, <4>1
      <4>3. runs[i].vm \in 1..Len(moduleVMs) /\ moduleVMs[runs[i].vm] = loadingStack[i - 1]
        BY <3>1, LoadingMachine DEF n
      <4>4. moduleVMs'[runs[i].vm] = loadingStack[i - 1] /\ runs[i].vm # 0
        BY <1>2, <1>10, <4>3
      <4>5. baseDirs[i] = DirOf[loadingStack[i - 1]]
        BY <3>1 DEF IInv, LoadsNest, n
      <4>6. QED
        BY <4>2, <4>4, <4>5
    <3>2. CASE i = n + 1
      <4>1. i - 1 = n
        BY <1>2, <3>2
      <4>2. QED
        BY <1>3, <1>5, <1>7, <1>8, <1>9, <1>10, <3>2, <4>1
    <3>3. i \in 2..n \/ i = n + 1
      BY <1>2, <1>7
    <3>4. QED
      BY <3>1, <3>2, <3>3
  <2>5. QED
    BY <2>1, <2>2, <2>3, <2>4 DEF LoadsNest
<1>14. NoLoadTwice'
  <2>1. Len(loadingStack) = n - 1 /\ \A i \in 1..n : i \in 1..(n - 1) \/ i = n
    BY <1>2
  <2>2. ASSUME NEW i \in 1..Len(loadingStack'), NEW j \in 1..Len(loadingStack'), loadingStack'[i] = loadingStack'[j]
        PROVE  i = j
    <3>1. CASE i \in 1..(n - 1) /\ j \in 1..(n - 1)
      BY <1>8, <2>1, <2>2, <3>1 DEF IInv, NoLoadTwice
    <3>2. CASE i \in 1..(n - 1) /\ j = n
      BY <1>1, <1>8, <2>1, <2>2, <3>2
    <3>3. CASE i = n /\ j \in 1..(n - 1)
      BY <1>1, <1>8, <2>1, <2>2, <3>3
    <3>4. QED
      BY <1>8, <2>1, <3>1, <3>2, <3>3
  <2>3. \A i \in 1..Len(loadingStack') : moduleCache'[loadingStack'[i]] = 0
    BY <1>1, <1>8, <2>1 DEF IInv, NoLoadTwice
  <2>4. ASSUME NEW i \in 2..Len(runs'), NEW j \in 1..Len(moduleVMs'), moduleVMs'[j] = loadingStack'[i - 1]
        PROVE  j <= runs'[i].vm
    <3>1. CASE i \in 2..n
      <4>1. i \in 1..n /\ i - 1 \in 1..(n - 1)
        BY <1>2, <3>1
      <4>2. runs'[i] = runs[i] /\ loadingStack'[i - 1] = loadingStack[i - 1] /\ loadingStack[i - 1] # key
        BY <1>1, <1>7, <1>8, <2>1, <4>1
      <4>3. j # v
        BY <1>10, <2>4, <4>2
      <4>4. j \in 1..Len(moduleVMs)
        BY <1>2, <1>10, <1>11, <4>3
      <4>5. moduleVMs[j] = loadingStack[i - 1]
        BY <1>10, <2>4, <4>2, <4>4
      <4>6. QED
        BY <3>1, <4>2, <4>4, <4>5 DEF IInv, NoLoadTwice, n
    <3>2. CASE i = n + 1
      BY <1>3, <1>5, <1>7, <1>10, <3>2
    <3>3. i \in 2..n \/ i = n + 1
      BY <1>2, <1>7
    <3>4. QED
      BY <3>1, <3>2, <3>3
  <2>5. QED
    BY <2>2, <2>3, <2>4 DEF NoLoadTwice
<1>15. CacheIsLast'
  <2>1. SUFFICES ASSUME NEW k \in Keys, moduleCache[k] # 0
                 PROVE  /\ moduleCache[k] \in whole
                        /\ moduleCache[k] <= Len(moduleVMs') /\ moduleVMs'[moduleCache[k]] = k
                        /\ \A j \in 1..Len(moduleVMs') : moduleVMs'[j] = k => j <= moduleCache[k]
    BY <1>1 DEF CacheIsLast
  <2>2. moduleCache[k] \in Nat
    BY DEF IInv, TypeOK, VMs
  <2>3. /\ moduleCache[k] \in whole /\ moduleCache[k] <= Len(moduleVMs) /\ moduleVMs[moduleCache[k]] = k
        /\ \A j \in 1..Len(moduleVMs) : moduleVMs[j] = k => j <= moduleCache[k]
    BY <2>1 DEF IInv, CacheIsLast
  <2>4. moduleCache[k] \in 1..Len(moduleVMs)
    BY <1>2, <2>1, <2>2, <2>3
  <2>5. moduleCache[k] <= Len(moduleVMs') /\ moduleVMs'[moduleCache[k]] = k
    BY <1>2, <1>10, <1>11, <2>3, <2>4
  <2>6. ASSUME NEW j \in 1..Len(moduleVMs'), moduleVMs'[j] = k PROVE j <= moduleCache[k]
    <3>1. k # key
      BY <1>1, <2>1
    <3>2. j # v
      BY <1>10, <2>6, <3>1
    <3>3. j \in 1..Len(moduleVMs)
      BY <1>2, <1>10, <1>11, <3>2
    <3>4. QED
      BY <1>10, <2>3, <2>6, <3>3
  <2>7. QED
    BY <2>3, <2>5, <2>6
<1>16. OneModulePerFile' /\ ExportsReadAnExporter'
  BY <1>1 DEF IInv, OneModulePerFile, ExportsReadAnExporter, VMs
<1>17. QED
  BY <1>12, <1>13, <1>14, <1>15, <1>16 DEF IInv

(* The machine on top goes, and what the static stacks say of it.          *)
LEMMA PopFacts ==
  ASSUME IInv, Len(runs) > 1, Pop, UNCHANGED moduleVMs
  PROVE  /\ runs' \in Seq(Run) /\ Len(runs') = Len(runs) - 1
         /\ \A i \in 1..(Len(runs) - 1) : runs'[i] = runs[i]
         /\ Last(runs').vm \in VMs
         /\ loadingStack' \in Seq(Keys) /\ Len(loadingStack') = Len(loadingStack) - 1
         /\ \A i \in 1..(Len(loadingStack) - 1) : loadingStack'[i] = loadingStack[i]
         /\ baseDirs' \in Seq(Dirs)
         /\ LoadsNest'
<1>1. /\ Len(runs) \in Nat /\ runs \in Seq(Run)
      /\ Len(loadingStack) \in Nat /\ Len(runs) = Len(loadingStack) + 1 /\ Len(baseDirs) = Len(runs)
      /\ Len(moduleVMs) \in Nat /\ loadingStack \in Seq(Keys) /\ baseDirs \in Seq(Dirs) /\ moduleVMs \in Seq(Keys)
  BY RunningFacts, Depths DEF IInv
<1>2. runs # << >> /\ loadingStack # << >> /\ baseDirs # << >>
  BY <1>1
<1>3. /\ runs' \in Seq(Run) /\ Len(runs') = Len(runs) - 1
      /\ \A i \in 1..(Len(runs) - 1) : runs'[i] = runs[i]
  BY <1>1, <1>2, FrontFacts DEF Pop
<1>4. /\ loadingStack' \in Seq(Keys) /\ Len(loadingStack') = Len(loadingStack) - 1
      /\ \A i \in 1..(Len(loadingStack) - 1) : loadingStack'[i] = loadingStack[i]
  BY <1>1, <1>2, FrontFacts DEF Pop
<1>5. /\ baseDirs' \in Seq(Dirs) /\ Len(baseDirs') = Len(baseDirs) - 1
      /\ \A i \in 1..(Len(baseDirs) - 1) : baseDirs'[i] = baseDirs[i]
  BY <1>1, <1>2, FrontFacts DEF Pop
<1>6. Last(runs').vm \in VMs
  <2>1. Len(runs') >= 1 /\ runs' # << >>
    BY <1>1, <1>3
  <2>2. Last(runs') \in Run
    BY <1>3, <2>1, LastFacts
  <2>3. QED
    BY <2>2 DEF Run
<1>7. LoadsNest'
  <2>1. Len(runs') = Len(loadingStack') + 1 /\ Len(baseDirs') = Len(runs')
    BY <1>1, <1>3, <1>4, <1>5
  <2>2. runs'[1].vm = 0
    <3>1. 1 \in 1..(Len(runs) - 1)
      BY <1>1
    <3>2. QED
      BY <1>3, <3>1 DEF IInv, LoadsNest
  <2>3. ASSUME NEW i \in 1..Len(runs') PROVE runs'[i].vm <= Len(moduleVMs') /\ runs'[i].frames # << >>
    <3>1. i \in 1..(Len(runs) - 1) /\ i \in 1..Len(runs)
      BY <1>1, <1>3
    <3>2. QED
      BY <1>3, <3>1 DEF IInv, LoadsNest
  <2>4. ASSUME NEW i \in 2..Len(runs')
        PROVE  /\ runs'[i].vm # 0 /\ moduleVMs'[runs'[i].vm] = loadingStack'[i - 1]
               /\ baseDirs'[i] = DirOf[loadingStack'[i - 1]]
    <3>1. i \in 1..(Len(runs) - 1) /\ i \in 2..Len(runs) /\ i - 1 \in 1..(Len(loadingStack) - 1) /\ i \in 1..(Len(baseDirs) - 1)
      BY <1>1, <1>3
    <3>2. runs'[i] = runs[i] /\ loadingStack'[i - 1] = loadingStack[i - 1] /\ baseDirs'[i] = baseDirs[i]
      BY <1>3, <1>4, <1>5, <3>1
    <3>3. QED
      BY <3>1, <3>2 DEF IInv, LoadsNest
  <2>5. QED
    BY <2>1, <2>2, <2>3, <2>4 DEF LoadsNest
<1>8. QED
  BY <1>3, <1>4, <1>5, <1>6, <1>7

LEMMA LoadFailsIInv ==
  ASSUME IInv, LoadFails
  PROVE  IInv'
<1>1. Len(runs) > 1 /\ Pop /\ UNCHANGED <<moduleVMs, moduleCache, globals, bound, exports, moduleGlobals, whole>>
  BY DEF LoadFails
<1>2. /\ runs' \in Seq(Run) /\ Len(runs') = Len(runs) - 1
      /\ \A i \in 1..(Len(runs) - 1) : runs'[i] = runs[i]
      /\ loadingStack' \in Seq(Keys) /\ Len(loadingStack') = Len(loadingStack) - 1
      /\ \A i \in 1..(Len(loadingStack) - 1) : loadingStack'[i] = loadingStack[i]
      /\ baseDirs' \in Seq(Dirs)
      /\ LoadsNest'
  BY <1>1, PopFacts
<1>3. Len(loadingStack) \in Nat /\ Len(runs) = Len(loadingStack) + 1
  BY Depths DEF IInv
<1>4. TypeOK'
  BY <1>1, <1>2 DEF IInv, TypeOK, VMs, Run
<1>5. NoLoadTwice'
  <2>1. \A i \in 1..Len(loadingStack') : i \in 1..Len(loadingStack) /\ loadingStack'[i] = loadingStack[i]
    BY <1>2, <1>3
  <2>2. \A i \in 2..Len(runs') : i \in 2..Len(runs) /\ runs'[i] = runs[i] /\ loadingStack'[i - 1] = loadingStack[i - 1]
    BY <1>2, <1>3
  <2>3. QED
    BY <1>1, <2>1, <2>2 DEF IInv, NoLoadTwice
<1>6. CacheIsLast' /\ OneModulePerFile' /\ ExportsReadAnExporter'
  BY <1>1 DEF IInv, CacheIsLast, OneModulePerFile, ExportsReadAnExporter, VMs
<1>7. QED
  BY <1>2, <1>4, <1>5, <1>6 DEF IInv

LEMMA LoadEndsIInv ==
  ASSUME IInv, LoadEnds
  PROVE  IInv'
<1> DEFINE v == Vm
           key == moduleVMs[v]
<1>1. /\ Len(runs) > 1 /\ Pop /\ UNCHANGED moduleVMs
      /\ exports' = [exports EXCEPT ![v] = globals[v]]
      /\ moduleGlobals' = [u \in VMs |-> IF u \in globals[v] THEN v ELSE moduleGlobals[u]]
      /\ moduleCache' = [moduleCache EXCEPT ![key] = v]
      /\ whole' = whole \cup {v}
      /\ Bind(Last(runs').vm, key, v, globals[v])
  BY DEF LoadEnds, Loaded
<1>2. /\ v \in 1..Len(moduleVMs) /\ v # 0 /\ v \in VMs /\ key \in Keys /\ moduleCache[key] = 0
      /\ key = loadingStack[Len(loadingStack)]
  BY <1>1, TopMachine
<1>3. /\ runs' \in Seq(Run) /\ Len(runs') = Len(runs) - 1
      /\ \A i \in 1..(Len(runs) - 1) : runs'[i] = runs[i]
      /\ Last(runs').vm \in VMs
      /\ loadingStack' \in Seq(Keys) /\ Len(loadingStack') = Len(loadingStack) - 1
      /\ \A i \in 1..(Len(loadingStack) - 1) : loadingStack'[i] = loadingStack[i]
      /\ baseDirs' \in Seq(Dirs)
      /\ LoadsNest'
  BY <1>1, PopFacts
<1>4. Len(loadingStack) \in Nat /\ Len(runs) = Len(loadingStack) + 1 /\ Len(moduleVMs) \in Nat /\ Len(runs) > 1
  BY <1>1, Depths DEF IInv
<1>5. v = runs[Len(runs)].vm
  BY RunningFacts DEF IInv
<1> HIDE DEF v
<1>6. /\ moduleCache \in [Keys -> VMs] /\ globals \in [VMs -> SUBSET VMs] /\ exports \in [VMs -> SUBSET VMs]
      /\ moduleGlobals \in [VMs -> VMs] /\ whole \subseteq VMs /\ TypeOK
  BY DEF IInv, TypeOK
<1>7. /\ bound' \in [VMs -> [Keys -> VMs]] /\ globals' \in [VMs -> SUBSET VMs]
      /\ \A w \in VMs, k \in Keys : bound'[w][k] = bound[w][k] \/ (k = key /\ bound'[w][k] = v)
      /\ \A w \in VMs : globals'[w] \subseteq globals[w] \cup globals[v]
  <2>1. globals[v] \in SUBSET VMs
    BY <1>2, <1>6
  <2>2. QED
    BY <1>1, <1>2, <1>3, <1>6, <2>1, BindFacts
<1> HIDE DEF key
<1>8. /\ moduleCache' \in [Keys -> VMs]
      /\ \A k \in Keys : moduleCache'[k] = IF k = key THEN v ELSE moduleCache[k]
  BY <1>1, <1>2, <1>6
<1>9. /\ exports' \in [VMs -> SUBSET VMs]
      /\ \A w \in VMs : exports'[w] = IF w = v THEN globals[v] ELSE exports[w]
  BY <1>1, <1>2, <1>6
<1>10. /\ moduleGlobals' \in [VMs -> VMs]
       /\ \A u \in VMs : moduleGlobals'[u] = IF u \in globals[v] THEN v ELSE moduleGlobals[u]
  BY <1>1, <1>2, <1>6
<1>11. TypeOK'
  <2>1. moduleVMs' \in Seq(Keys) /\ Len(moduleVMs') <= MaxVMs /\ whole' \subseteq VMs
    BY <1>1, <1>2, <1>6 DEF TypeOK
  <2>2. QED
    BY <1>3, <1>7, <1>8, <1>9, <1>10, <2>1 DEF TypeOK, VMs, Run
<1>12. key = moduleVMs[v]
  BY DEF key
<1>13. NoLoadTwice'
  <2>1. \A i \in 1..Len(loadingStack') : i \in 1..Len(loadingStack) /\ loadingStack'[i] = loadingStack[i] /\ i # Len(loadingStack)
    BY <1>3, <1>4
  <2>2. \A i \in 2..Len(runs') : i \in 2..Len(runs) /\ runs'[i] = runs[i] /\ loadingStack'[i - 1] = loadingStack[i - 1]
    BY <1>3, <1>4
  <2>3. \A i, j \in 1..Len(loadingStack') : loadingStack'[i] = loadingStack'[j] => i = j
    BY <2>1 DEF IInv, NoLoadTwice
  <2>4. ASSUME NEW i \in 1..Len(loadingStack') PROVE moduleCache'[loadingStack'[i]] = 0
    <3>1. loadingStack'[i] = loadingStack[i] /\ i \in 1..Len(loadingStack) /\ i # Len(loadingStack)
            /\ Len(loadingStack) \in 1..Len(loadingStack)
      BY <1>4, <2>1
    <3>2. loadingStack[i] # key /\ moduleCache[loadingStack[i]] = 0
      BY <1>2, <3>1 DEF IInv, NoLoadTwice
    <3>3. loadingStack[i] \in Keys
      BY <3>1 DEF IInv, TypeOK
    <3>4. QED
      BY <1>8, <3>1, <3>2, <3>3
  <2>5. \A i \in 2..Len(runs'), j \in 1..Len(moduleVMs') : moduleVMs'[j] = loadingStack'[i - 1] => j <= runs'[i].vm
    BY <1>1, <2>2 DEF IInv, NoLoadTwice
  <2>6. QED
    BY <2>3, <2>4, <2>5 DEF NoLoadTwice
<1>14. CacheIsLast'
  <2>1. ASSUME NEW k \in Keys, moduleCache'[k] # 0
        PROVE  /\ moduleCache'[k] \in whole'
               /\ moduleCache'[k] <= Len(moduleVMs) /\ moduleVMs[moduleCache'[k]] = k
               /\ \A j \in 1..Len(moduleVMs) : moduleVMs[j] = k => j <= moduleCache'[k]
    <3>1. CASE k # key
      <4>1. moduleCache'[k] = moduleCache[k]
        BY <1>8, <3>1
      <4>2. QED
        BY <1>1, <2>1, <4>1 DEF IInv, CacheIsLast
    <3>2. CASE k = key
      <4>1. moduleCache'[k] = v
        BY <1>8, <3>2
      <4>2. v \in whole' /\ v <= Len(moduleVMs) /\ moduleVMs[v] = k
        BY <1>1, <1>2, <1>4, <1>12, <3>2
      <4>3. Len(runs) \in 2..Len(runs) /\ Len(runs) - 1 = Len(loadingStack)
        BY <1>4
      <4>4. ASSUME NEW j \in 1..Len(moduleVMs), moduleVMs[j] = k PROVE j <= v
        <5>1. moduleVMs[j] = loadingStack[Len(runs) - 1]
          BY <1>2, <3>2, <4>3, <4>4
        <5>2. j <= runs[Len(runs)].vm
          BY <4>3, <5>1 DEF IInv, NoLoadTwice
        <5>3. QED
          BY <1>5, <5>2
      <4>5. QED
        BY <4>1, <4>2, <4>4
    <3>3. QED
      BY <3>1, <3>2
  <2>2. QED
    BY <1>1, <2>1 DEF CacheIsLast
<1>15. OneModulePerFile'
  <2>1. ASSUME NEW w \in VMs, NEW k \in Keys PROVE bound'[w][k] \in {0, moduleCache'[k]}
    <3>1. bound[w][k] \in {0, moduleCache[k]}
      BY DEF IInv, OneModulePerFile
    <3>2. bound'[w][k] = bound[w][k] \/ (k = key /\ bound'[w][k] = v)
      BY <1>7
    <3>3. moduleCache'[k] = IF k = key THEN v ELSE moduleCache[k]
      BY <1>8
    <3>4. CASE k = key
      BY <1>2, <3>1, <3>2, <3>3, <3>4
    <3>5. CASE k # key
      BY <3>1, <3>2, <3>3, <3>5
    <3>6. QED
      BY <3>4, <3>5
  <2>2. QED
    BY <2>1 DEF OneModulePerFile, VMs
<1>16. ExportsReadAnExporter'
  <2>1. exports[v] = {}
    <3>1. ASSUME NEW k \in Keys, moduleCache[k] = v PROVE FALSE
      <4>1. moduleVMs[v] = k
        BY <1>2, <3>1 DEF IInv, CacheIsLast
      <4>2. QED
        BY <1>2, <1>12, <3>1, <4>1
    <3>2. QED
      BY <1>2, <3>1 DEF IInv, ExportsReadAnExporter
  <2>2. ASSUME NEW w \in VMs, exports'[w] # {} PROVE w # 0 /\ \E k \in Keys : moduleCache'[k] = w
    <3>1. CASE w = v
      BY <1>2, <1>8, <3>1
    <3>2. CASE w # v
      <4>1. exports[w] # {}
        BY <1>9, <2>2, <3>2
      <4>2. PICK k \in Keys : moduleCache[k] = w
        BY <4>1 DEF IInv, ExportsReadAnExporter
      <4>3. w # 0
        BY <4>1 DEF IInv, ExportsReadAnExporter
      <4>4. k # key
        BY <1>2, <4>2, <4>3
      <4>5. QED
        BY <1>8, <4>2, <4>3, <4>4
    <3>3. QED
      BY <3>1, <3>2
  <2>3. ASSUME NEW w \in VMs, NEW u \in exports'[w] PROVE moduleGlobals'[u] # 0
    <3>1. u \in VMs
      BY <1>9
    <3>2. CASE u \in globals[v]
      BY <1>2, <1>10, <3>1, <3>2
    <3>3. CASE u \notin globals[v]
      <4>1. u \in exports[w]
        BY <1>9, <3>3
      <4>2. moduleGlobals[u] # 0
        BY <4>1 DEF IInv, ExportsReadAnExporter
      <4>3. QED
        BY <1>10, <3>1, <3>3, <4>2
    <3>4. QED
      BY <3>2, <3>3
  <2>4. ASSUME NEW u \in VMs, moduleGlobals'[u] # 0 PROVE u \in exports'[moduleGlobals'[u]]
    <3>1. CASE u \in globals[v]
      BY <1>2, <1>9, <1>10, <3>1
    <3>2. CASE u \notin globals[v]
      <4>1. moduleGlobals'[u] = moduleGlobals[u] /\ moduleGlobals[u] \in VMs
        BY <1>6, <1>10, <3>2
      <4>2. u \in exports[moduleGlobals[u]]
        BY <2>4, <4>1 DEF IInv, ExportsReadAnExporter
      <4>3. moduleGlobals[u] # v
        BY <2>1, <4>2
      <4>4. QED
        BY <1>9, <4>1, <4>2, <4>3
    <3>3. QED
      BY <3>1, <3>2
  <2>5. QED
    BY <2>2, <2>3, <2>4 DEF ExportsReadAnExporter, VMs
<1>17. QED
  BY <1>3, <1>11, <1>13, <1>14, <1>15, <1>16 DEF IInv

-----------------------------------------------------------------------------
(* The invariant.                                                          *)

(* A use finds a file; what it does with the file keeps the invariant.     *)
LEMMA LoadFileIInv ==
  ASSUME IInv, NEW key \in Keys, LoadFile(key)
  PROVE  IInv'
<1>1. CASE Cached(key)
  BY <1>1, CachedIInv
<1>2. CASE Begin(key)
  BY <1>2, BeginIInv
<1>3. CASE Refused
  BY <1>3 DEF Refused, vars, IInv, TypeOK, LoadsNest, NoLoadTwice, CacheIsLast, OneModulePerFile,
              ExportsReadAnExporter, VMs
<1>4. QED
  BY <1>1, <1>2, <1>3 DEF LoadFile

LEMMA UsedFiles ==
  ASSUME IInv
  PROVE  /\ \A p \in Paths : Resolve[Last(baseDirs)][p] \in Keys
         /\ \A n \in Names : PackageFiles[Head(baseDirs)][n] \subseteq Keys
<1>1. baseDirs \in Seq(Dirs) /\ baseDirs # << >>
  <2>1. baseDirs \in Seq(Dirs) /\ Len(baseDirs) \in Nat /\ Len(baseDirs) >= 1
    BY Depths DEF IInv
  <2>2. QED
    BY <2>1
<1>2. Last(baseDirs) \in Dirs /\ Head(baseDirs) \in Dirs
  <2>1. Last(baseDirs) \in Dirs /\ Len(baseDirs) \in Nat /\ Len(baseDirs) >= 1
    BY <1>1, LastFacts
  <2>2. 1 \in 1..Len(baseDirs) /\ Head(baseDirs) = baseDirs[1]
    BY <1>1, <2>1
  <2>3. baseDirs[1] \in Dirs
    BY <1>1, <2>2, SequenceFacts
  <2>4. QED
    BY <2>1, <2>2, <2>3
<1>3. \A d \in Dirs, p \in Paths : Resolve[d][p] \in Keys
  BY ResolveAssumption
<1>4. \A d \in Dirs, n \in Names : PackageFiles[d][n] \subseteq Keys
  BY PackageAssumption
<1>5. QED
  BY <1>2, <1>3, <1>4

LEMMA NextIInv ==
  ASSUME IInv, [Next]_vars
  PROVE  IInv'
<1>1. ASSUME NEW p \in Paths, UseFile(p) PROVE IInv'
  BY <1>1, UsedFiles, LoadFileIInv DEF UseFile
<1>2. ASSUME NEW n \in Names, UsePackage(n) PROVE IInv'
  <2>1. PICK key \in PackageFiles[Head(baseDirs)][n] : LoadFile(key)
    BY <1>2 DEF UsePackage
  <2>2. key \in Keys
    BY UsedFiles
  <2>3. QED
    BY <2>1, <2>2, LoadFileIInv
<1>3. CASE UNCHANGED vars
  BY <1>3 DEF vars, IInv, TypeOK, LoadsNest, NoLoadTwice, CacheIsLast, OneModulePerFile,
              ExportsReadAnExporter, VMs
<1>4. QED
  BY <1>1, <1>2, <1>3, LoadEndsIInv, LoadFailsIInv, DefineIInv, CallIInv, LeaveIInv, SetBaseDirIInv DEF Next

(* What the loader keeps true: the static stacks follow the machines that  *)
(* run, a file is loaded once at a time, the cache and every importer hold *)
(* its last run, and exported functions read a machine that exports them   *)
(* (loadFileModule, exportGlobals).                                        *)
THEOREM LoaderInvariant == Spec => []IInv
<1>1. Init => IInv
  BY InitIInv
<1>2. IInv /\ [Next]_vars => IInv'
  BY NextIInv
<1>3. QED
  BY <1>1, <1>2, PTL DEF Spec

-----------------------------------------------------------------------------
(* A file is run again only after its earlier runs failed (the cache and   *)
(* the test for a circular use in loadFileModule), of any number of files  *)
(* and runs.                                                               *)
THEOREM LoaderRunsFilesOnce == Spec => []FilesRunOnce
<1>1. IInv => FilesRunOnce
  <2>1. SUFFICES ASSUME IInv, NEW i \in 1..Len(moduleVMs), NEW j \in 1..Len(moduleVMs),
                        i < j, moduleVMs[i] = moduleVMs[j]
                 PROVE  /\ moduleCache[moduleVMs[i]] # i
                        /\ \A r \in 1..Len(runs) : runs[r].vm # i
    BY DEF FilesRunOnce
  <2>2. moduleVMs[i] \in Keys /\ Len(moduleVMs) \in Nat /\ i \in Nat /\ j \in Nat /\ i # 0 /\ ~(j <= i)
    <3>1. moduleVMs \in Seq(Keys) /\ Len(moduleVMs) \in Nat
      BY <2>1, Depths DEF IInv
    <3>2. moduleVMs[i] \in Keys
      BY <3>1, SequenceFacts
    <3>3. QED
      BY <2>1, <3>1, <3>2
  <2>3. moduleCache[moduleVMs[i]] # i
    BY <2>1, <2>2 DEF IInv, CacheIsLast
  <2>4. ASSUME NEW r \in 1..Len(runs), runs[r].vm = i PROVE FALSE
    <3>1. r # 1
      BY <2>1, <2>2, <2>4 DEF IInv, LoadsNest
    <3>2. r \in 2..Len(runs)
      <4>1. Len(runs) \in Nat
        BY <2>1, RunningFacts DEF IInv
      <4>2. QED
        BY <3>1, <4>1
    <3>3. moduleVMs[j] = loadingStack[r - 1]
      BY <2>1, <2>4, <3>2, LoadingMachine
    <3>4. j <= runs[r].vm
      BY <2>1, <3>2, <3>3 DEF IInv, NoLoadTwice
    <3>5. QED
      BY <2>2, <2>4, <3>4
  <2>5. QED
    BY <2>3, <2>4
<1>2. QED
  BY <1>1, LoaderInvariant, PTL

(* A file that runs on its own machine finds what it uses from its own     *)
(* directory (baseDirs in loadFileModule).                                 *)
THEOREM LoaderOwnPaths == Spec => []OwnPaths
<1>1. IInv => OwnPaths
  <2>1. SUFFICES ASSUME IInv, Unit = Vm PROVE Last(baseDirs) = ImportersDir
    BY DEF OwnPaths
  <2>2. /\ Len(runs) \in Nat /\ Len(runs) >= 1 /\ Vm = runs[Len(runs)].vm /\ Vm \in VMs
        /\ Len(baseDirs) = Len(runs) /\ baseDirs \in Seq(Dirs)
    BY <2>1, RunningFacts, Depths DEF IInv
  <2>3. baseDirs # << >>
    BY <2>2
  <2>4. Last(baseDirs) = baseDirs[Len(runs)]
    BY <2>2, <2>3, LastFacts
  <2>5. CASE Len(runs) = 1
    <3>1. Vm = 0
      BY <2>1, <2>2, <2>5 DEF IInv, LoadsNest
    <3>2. Head(baseDirs) = baseDirs[1]
      BY <2>2, <2>3
    <3>3. QED
      BY <2>1, <2>4, <2>5, <3>1, <3>2 DEF ImportersDir
  <2>6. CASE Len(runs) > 1
    <3>1. Vm # 0 /\ Len(runs) \in 2..Len(runs)
      BY <2>1, <2>2, <2>6, TopMachine
    <3>2. moduleVMs[Vm] = loadingStack[Len(runs) - 1]
      BY <2>1, <2>2, <3>1 DEF IInv, LoadsNest
    <3>3. baseDirs[Len(runs)] = DirOf[loadingStack[Len(runs) - 1]]
      BY <2>1, <3>1 DEF IInv, LoadsNest
    <3>4. QED
      BY <2>1, <2>4, <3>1, <3>2, <3>3 DEF ImportersDir
  <2>7. QED
    BY <2>2, <2>5, <2>6
<1>2. QED
  BY <1>1, LoaderInvariant, PTL

(* As long as no module exports a function of another, every exported      *)
(* function reads the globals of its own module (exportGlobals).           *)
THEOREM LoaderOwnGlobals == Spec => []OwnGlobals
<1>1. IInv => OwnGlobals
  <2>1. SUFFICES ASSUME IInv, \A v \in VMs : exports[v] \subseteq {v}, NEW u \in VMs, moduleGlobals[u] # 0
                 PROVE  moduleGlobals[u] = u
    BY DEF OwnGlobals, FunctionsReadTheirModule
  <2>2. moduleGlobals[u] \in VMs
    BY <2>1 DEF IInv, TypeOK
  <2>3. u \in exports[moduleGlobals[u]]
    BY <2>1 DEF IInv, ExportsReadAnExporter
  <2>4. QED
    BY <2>1, <2>2, <2>3
<1>2. QED
  BY <1>1, LoaderInvariant, PTL

(* Loads nest no deeper than there are files: the test for a circular use  *)
(* in loadFileModule is a bound on the C++ stack.                          *)
THEOREM LoaderNestingBounded ==
  ASSUME IsFiniteSet(Keys)
  PROVE  Spec => []NestingBounded
<1>1. IInv => NestingBounded
  <2>1. SUFFICES ASSUME IInv PROVE NestingBounded
    OBVIOUS
  <2> DEFINE n == Len(loadingStack)
  <2>2. n \in Nat /\ Len(runs) = n + 1 /\ loadingStack \in Seq(Keys)
    BY <2>1, Depths DEF IInv
  <2>3. IsFiniteSet(1..n) /\ Cardinality(1..n) = n
    <3>1. 1 \in Int /\ n \in Int
      BY <2>2
    <3>2. IsFiniteSet(1..n) /\ Cardinality(1..n) = IF 1 > n THEN 0 ELSE n - 1 + 1
      BY <3>1, FS_Interval
    <3>3. n = IF 1 > n THEN 0 ELSE n - 1 + 1
      BY <2>2
    <3>4. QED
      BY <3>2, <3>3
  <2>4. loadingStack \in [1..n -> Keys]
    BY <2>2
  <2>5. Cardinality(Keys) \in Nat
    BY <2>1, FS_CardinalityType
  <2>6. ~(Cardinality(Keys) < Cardinality(1..n))
    <3>1. SUFFICES ASSUME Cardinality(Keys) < Cardinality(1..n) PROVE FALSE
      OBVIOUS
    <3>2. \E x, y \in 1..n : x # y /\ loadingStack[x] = loadingStack[y]
      BY <2>3, <2>4, <3>1, FS_PigeonHole
    <3>3. QED
      BY <2>1, <3>2 DEF IInv, NoLoadTwice
  <2>7. QED
    BY <2>2, <2>3, <2>5, <2>6 DEF NestingBounded
<1>2. QED
  BY <1>1, LoaderInvariant, PTL

-----------------------------------------------------------------------------
(* The loader implements the registry.                                     *)

registryState == <<loadingStack, moduleCache, bound>>

(* Binding a module that is in the cache is an import of it; binding names *)
(* of it is none.                                                          *)
LEMMA CachedImports ==
  ASSUME IInv, NEW key \in Keys, Cached(key)
  PROVE  [Registry!RegistryNext]_registryState
<1>1. Vm \in VMs
  BY RunningFacts DEF IInv
<1>2. moduleCache[key] # 0 /\ UNCHANGED <<loadingStack, moduleCache>>
  BY DEF Cached, statics
<1>3. CASE bound' = [bound EXCEPT ![Vm][key] = moduleCache[key]]
  <2>1. Registry!Import(Vm, key)
    BY <1>2, <1>3 DEF Registry!Import
  <2>2. QED
    BY <1>1, <2>1 DEF Registry!RegistryNext
<1>4. CASE UNCHANGED bound
  BY <1>2, <1>4 DEF registryState
<1>5. QED
  BY <1>3, <1>4 DEF Cached, Bind

LEMMA BeginBegins ==
  ASSUME IInv, NEW key \in Keys, Begin(key)
  PROVE  Registry!RegistryNext
<1>1. Registry!Begin(key)
  BY DEF Begin, Push, IsLoading, Registry!Begin
<1>2. QED
  BY <1>1 DEF Registry!RegistryNext

(* A machine that comes to the end of its file is no module yet, so its    *)
(* map is a new one; the importer is the machine below.                    *)
LEMMA LoadEndsCompletes ==
  ASSUME IInv, LoadEnds
  PROVE  Registry!RegistryNext
<1> DEFINE w == Last(runs').vm
<1>1. Len(runs) > 1 /\ Pop /\ UNCHANGED moduleVMs
  BY DEF LoadEnds
<1>2. /\ Vm # 0 /\ Vm \in VMs /\ loadingStack # << >>
      /\ moduleVMs[Vm] = Last(loadingStack) /\ moduleCache[moduleVMs[Vm]] = 0
  BY <1>1, TopMachine
<1>3. w \in VMs
  BY <1>1, PopFacts
<1>4. \A k \in Keys : moduleCache[k] # Vm
  <2>1. SUFFICES ASSUME NEW k \in Keys, moduleCache[k] = Vm PROVE FALSE
    OBVIOUS
  <2>2. moduleVMs[Vm] = k
    BY <1>2, <2>1 DEF IInv, CacheIsLast
  <2>3. QED
    BY <1>2, <2>1, <2>2
<1>5. /\ loadingStack' = Front(loadingStack)
      /\ moduleCache' = [moduleCache EXCEPT ![Last(loadingStack)] = Vm]
  BY <1>2 DEF LoadEnds, Loaded, Pop
<1>6. UNCHANGED bound \/ bound' = [bound EXCEPT ![w][Last(loadingStack)] = Vm]
  BY <1>2 DEF LoadEnds, Bind
<1>7. Registry!Complete(w, Vm)
  BY <1>2, <1>4, <1>5, <1>6 DEF Registry!Complete, Registry!Front, Registry!Last, Front, Last
<1>8. QED
  BY <1>2, <1>3, <1>7 DEF Registry!RegistryNext

LEMMA LoadFailsAbandons ==
  ASSUME IInv, LoadFails
  PROVE  Registry!RegistryNext
<1>1. loadingStack # << >>
  BY TopMachine DEF LoadFails
<1>2. Registry!Abandon
  BY <1>1 DEF LoadFails, Pop, Registry!Abandon, Registry!Front, Front
<1>3. QED
  BY <1>2 DEF Registry!RegistryNext

LEMMA LoadFileImplements ==
  ASSUME IInv, NEW key \in Keys, LoadFile(key)
  PROVE  [Registry!RegistryNext]_registryState
<1>1. CASE Cached(key)
  BY <1>1, CachedImports
<1>2. CASE Begin(key)
  BY <1>2, BeginBegins
<1>3. CASE Refused
  BY <1>3 DEF Refused, vars, registryState
<1>4. QED
  BY <1>1, <1>2, <1>3 DEF LoadFile

LEMMA NextImplements ==
  ASSUME IInv, [Next]_vars
  PROVE  [Registry!RegistryNext]_registryState
<1>1. ASSUME NEW p \in Paths, UseFile(p) PROVE [Registry!RegistryNext]_registryState
  BY <1>1, UsedFiles, LoadFileImplements DEF UseFile
<1>2. ASSUME NEW n \in Names, UsePackage(n) PROVE [Registry!RegistryNext]_registryState
  <2>1. PICK key \in PackageFiles[Head(baseDirs)][n] : LoadFile(key)
    BY <1>2 DEF UsePackage
  <2>2. key \in Keys
    BY UsedFiles
  <2>3. QED
    BY <2>1, <2>2, LoadFileImplements
<1>3. CASE LoadEnds
  BY <1>3, LoadEndsCompletes
<1>4. CASE LoadFails
  BY <1>4, LoadFailsAbandons
<1>5. CASE Define
  BY <1>5 DEF Define, statics, registryState
<1>6. ASSUME NEW u \in 0..Len(moduleVMs), Call(u) PROVE UNCHANGED registryState
  BY <1>6 DEF Call, statics, registryState
<1>7. ASSUME NEW n \in 1..MaxFrames, Leave(n) PROVE UNCHANGED registryState
  BY <1>7 DEF Leave, statics, registryState
<1>8. ASSUME NEW d \in Dirs, SetBaseDir(d) PROVE UNCHANGED registryState
  BY <1>8 DEF SetBaseDir, registryState
<1>9. CASE UNCHANGED vars
  BY <1>9 DEF vars, registryState
<1>10. QED
  BY <1>1, <1>2, <1>3, <1>4, <1>5, <1>6, <1>7, <1>8, <1>9 DEF Next

(* What importers see of loadFileModule is the registry: a file has one    *)
(* object for all of them, made once, by a load that succeeded.            *)
THEOREM LoaderImplementsRegistry == Spec => ImplementsModuleRegistry
<1>1. Init => Registry!RegistryInit
  BY DEF Init, Registry!RegistryInit
<1>2. IInv /\ [Next]_vars => [Registry!RegistryNext]_registryState
  BY NextImplements
<1>3. QED
  BY <1>1, <1>2, LoaderInvariant, PTL
     DEF Spec, ImplementsModuleRegistry, Registry!RegistrySpec, Registry!registryVars, registryState
=============================================================================
