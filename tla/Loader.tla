------------------------------- MODULE Loader -------------------------------
(***************************************************************************)
(* The loading of modules in files: vm.hpp, loadModule to exportGlobals.    *)
(* A use finds a file, runs it on a machine of its own inside the machine   *)
(* that said use, and keeps the map of what it exports.  The cache, the     *)
(* stack of loads and the stack of directories are static: all machines     *)
(* share them.  Machine 0 is the program's, machine i runs a file.  Of the  *)
(* functions a file defines one stands for all; it has the number of the    *)
(* machine that made it.                                                    *)
(***************************************************************************)
EXTENDS Naturals, Sequences, FiniteSets, SequencesExt

CONSTANTS
    Keys,           \* the files, by their canonical path
    Dirs,           \* directories
    Paths, Names,   \* what a use names: a quoted path, a package
    DirOf,          \* the directory of a file
    Resolve,        \* the file that a path names, counted from a directory
    PackageFiles,   \* the files a package may have under the program's directory
    MaxVMs,         \* bound of the model: machines made
    MaxFrames       \* MAX_FRAMES

ASSUME DirOfAssumption == DirOf \in [Keys -> Dirs]
ASSUME ResolveAssumption == Resolve \in [Dirs -> [Paths -> Keys]]
ASSUME PackageAssumption == PackageFiles \in [Dirs -> [Names -> SUBSET Keys]]
ASSUME BoundAssumption == MaxVMs \in Nat /\ MaxFrames \in Nat \ {0}

VARIABLES
    moduleVMs,      \* the file of each machine ever made
    moduleCache,    \* the machine whose exports are the module of a file, 0 for none
    loadingStack,   \* the files being loaded
    baseDirs,       \* the program's directory, then theirs
    runs,           \* the C++ stack: a machine and whose functions it is in
    globals,        \* the functions the globals of a machine hold
    bound,          \* the modules they hold
    exports,        \* the functions in the map made of a machine's globals
    moduleGlobals,  \* the machine whose globals a function uses, 0 for its caller's
    whole           \* the machines that came to the end of their file (history)
vars == <<moduleVMs, moduleCache, loadingStack, baseDirs, runs, globals, bound, exports, moduleGlobals, whole>>
statics == <<moduleVMs, moduleCache, loadingStack, baseDirs>>

VMs == 0..MaxVMs

Running == Last(runs)
Vm == Running.vm
Unit == Last(Running.frames)    \* whose code it is that runs

Init ==
    /\ moduleVMs = <<>> /\ loadingStack = <<>>
    /\ moduleCache = [k \in Keys |-> 0]
    /\ \E d \in Dirs : baseDirs = <<d>>
    /\ runs = <<[vm |-> 0, frames |-> <<0>>]>>
    /\ globals = [v \in VMs |-> {}] /\ exports = [v \in VMs |-> {}]
    /\ bound = [v \in VMs |-> [k \in Keys |-> 0]]
    /\ moduleGlobals = [u \in VMs |-> 0]
    /\ whole = {}

-----------------------------------------------------------------------------
(* The instruction USE *)

\* It binds the module, or some of its functions by their names: all that are
\* asked for, or those before the first that is missing.
Bind(v, key, module, members) ==
    \/ bound' = [bound EXCEPT ![v][key] = module] /\ UNCHANGED globals
    \/ \E names \in SUBSET members :
           globals' = [globals EXCEPT ![v] = @ \cup names] /\ UNCHANGED bound

Cached(key) ==
    /\ moduleCache[key] # 0
    /\ Bind(Vm, key, moduleCache[key], exports[moduleCache[key]])
    /\ UNCHANGED <<statics, runs, exports, moduleGlobals, whole>>

\* mutant: only the load that said use is looked at.
IsLoadingHere(key) == loadingStack # <<>> /\ Last(loadingStack) = key
IsLoading(key) == \E i \in 1..Len(loadingStack) : loadingStack[i] = key

Push(key) ==
    /\ Len(moduleVMs) < MaxVMs
    /\ loadingStack' = Append(loadingStack, key)
    /\ baseDirs' = Append(baseDirs, DirOf[key])
    /\ moduleVMs' = Append(moduleVMs, key)
    /\ runs' = Append(runs, [vm |-> Len(moduleVMs) + 1, frames |-> <<Len(moduleVMs) + 1>>])
    /\ UNCHANGED <<moduleCache, globals, bound, exports, moduleGlobals, whole>>
\* mutant: the cache is not asked.
BeginAnyway(key) == ~IsLoading(key) /\ Push(key)
Begin(key) == moduleCache[key] = 0 /\ ~IsLoading(key) /\ Push(key)

\* The file may not be there, not be readable or not be a program, each time it
\* is asked for; a file that is being loaded is refused.
Refused == UNCHANGED vars

LoadFile(key) == Cached(key) \/ Begin(key) \/ Refused

UseFile(p) == LoadFile(Resolve[Last(baseDirs)][p])
\* The first of the files that is there, of those there at the time.
UsePackage(n) == \E key \in PackageFiles[Head(baseDirs)][n] : LoadFile(key)

-----------------------------------------------------------------------------
(* The end of a load, which is the end of a USE of the machine below *)

\* mutant: the directory of the file stays.
PopKeepingDir ==
    /\ loadingStack' = Front(loadingStack)
    /\ runs' = Front(runs)
    /\ UNCHANGED baseDirs
Pop ==
    /\ loadingStack' = Front(loadingStack)
    /\ baseDirs' = Front(baseDirs)
    /\ runs' = Front(runs)

\* exportGlobals, and the entry of the cache: every function among the globals,
\* whoever defined it, reads its globals here from now on.
Loaded(v) ==
    /\ exports' = [exports EXCEPT ![v] = globals[v]]
    /\ moduleGlobals' = [u \in VMs |-> IF u \in globals[v] THEN v ELSE moduleGlobals[u]]
    /\ moduleCache' = [moduleCache EXCEPT ![moduleVMs[v]] = v]
    /\ whole' = whole \cup {v}

LoadEnds ==
    /\ Len(runs) > 1 /\ Len(Running.frames) = 1
    /\ Pop
    /\ Loaded(Vm)
    /\ Bind(Last(runs').vm, moduleVMs[Vm], Vm, globals[Vm])
    /\ UNCHANGED moduleVMs

\* mutant: the module is in the cache whatever became of it.
FailsInCache ==
    /\ Len(runs) > 1
    /\ Pop
    /\ moduleCache' = [moduleCache EXCEPT ![moduleVMs[Vm]] = Vm]
    /\ UNCHANGED <<moduleVMs, globals, bound, exports, moduleGlobals, whole>>
\* Nothing is kept of a module that fails, but its machine.
LoadFails ==
    /\ Len(runs) > 1
    /\ Pop
    /\ UNCHANGED <<moduleVMs, moduleCache, globals, bound, exports, moduleGlobals, whole>>

-----------------------------------------------------------------------------
(* What a program does besides *)

\* The file's function is defined, at the top level.
Define ==
    /\ Len(Running.frames) = 1 /\ Vm \notin globals[Vm]
    /\ globals' = [globals EXCEPT ![Vm] = @ \cup {Vm}]
    /\ UNCHANGED <<statics, runs, bound, exports, moduleGlobals, whole>>

\* A function of any file that has begun may be called: it may have been passed.
Call(u) ==
    /\ Len(Running.frames) < MaxFrames
    /\ runs' = [runs EXCEPT ![Len(runs)].frames = Append(@, u)]
    /\ UNCHANGED <<statics, globals, bound, exports, moduleGlobals, whole>>

\* A return, or an error caught by the frame n.
Leave(n) ==
    /\ n \in 1..(Len(Running.frames) - 1)
    /\ runs' = [runs EXCEPT ![Len(runs)].frames = SubSeq(@, 1, n)]
    /\ UNCHANGED <<statics, globals, bound, exports, moduleGlobals, whole>>

\* The host runs another file, between two programs.
SetBaseDir(d) ==
    /\ runs = <<[vm |-> 0, frames |-> <<0>>]>>
    /\ baseDirs' = <<d>>
    /\ UNCHANGED <<moduleVMs, moduleCache, loadingStack, runs, globals, bound, exports, moduleGlobals, whole>>

Next ==
    \/ \E p \in Paths : UseFile(p)
    \/ \E n \in Names : UsePackage(n)
    \/ LoadEnds \/ LoadFails \/ Define
    \/ \E u \in 0..Len(moduleVMs) : Call(u)
    \/ \E n \in 1..MaxFrames : Leave(n)
    \/ \E d \in Dirs : SetBaseDir(d)

Spec == Init /\ [][Next]_vars

-----------------------------------------------------------------------------
(* What must hold *)

\* The members and statics of VM that the loader works with, by their types.
TypeOK ==
    /\ moduleVMs \in Seq(Keys) /\ Len(moduleVMs) <= MaxVMs
    /\ moduleCache \in [Keys -> VMs]
    /\ loadingStack \in Seq(Keys)
    /\ baseDirs \in Seq(Dirs)
    /\ runs \in Seq([vm : VMs, frames : Seq(VMs)])
    /\ globals \in [VMs -> SUBSET VMs] /\ exports \in [VMs -> SUBSET VMs]
    /\ bound \in [VMs -> [Keys -> VMs]]
    /\ moduleGlobals \in [VMs -> VMs]
    /\ whole \subseteq VMs

\* A file is run again only when its earlier runs have failed: such a run is
\* neither going on nor the module of the file (the cache and the circular use
\* of loadFileModule).
FilesRunOnce ==
    \A i, j \in 1..Len(moduleVMs) : i < j /\ moduleVMs[i] = moduleVMs[j] =>
        /\ moduleCache[moduleVMs[i]] # i
        /\ \A r \in 1..Len(runs) : runs[r].vm # i

\* Where a use counts from is the directory of the file that says it, while the
\* file runs on its own machine (baseDirs in loadFileModule).
ImportersDir == IF Unit = 0 THEN Head(baseDirs) ELSE DirOf[moduleVMs[Unit]]
OwnPaths == Unit = Vm => Last(baseDirs) = ImportersDir

\* The same of all that runs, as the RFC 006 has it: not so, for a function that
\* is called from elsewhere counts from the directory of the machine it runs on.
PathsFromTheImporter ==
    [][\A p \in Paths : UseFile(p) => LoadFile(Resolve[ImportersDir][p])]_vars

\* An exported function reads the globals of its own module (exportGlobals), as
\* long as no module exports a function of another.
FunctionsReadTheirModule == \A u \in VMs : moduleGlobals[u] \in {0, u}
OwnGlobals == (\A v \in VMs : exports[v] \subseteq {v}) => FunctionsReadTheirModule

\* Loads nest no deeper than there are files (the circular use of loadFileModule
\* is the only limit).
NestingBounded == Len(runs) <= Cardinality(Keys) + 1

-----------------------------------------------------------------------------
(* The invariant behind them *)

\* The static stacks say what the C++ stack says: one load for each run above
\* the program's, with the directory of its file, the later machines on top.
LoadsNest ==
    /\ Len(runs) = Len(loadingStack) + 1 /\ Len(baseDirs) = Len(runs)
    /\ runs[1].vm = 0
    /\ \A i \in 1..Len(runs) : runs[i].vm <= Len(moduleVMs) /\ runs[i].frames # <<>>
    /\ \A i \in 2..Len(runs) : /\ runs[i].vm # 0
                               /\ moduleVMs[runs[i].vm] = loadingStack[i - 1]
                               /\ baseDirs[i] = DirOf[loadingStack[i - 1]]

\* A file that is being loaded is so once, is not in the cache, and was not
\* begun again.
NoLoadTwice ==
    /\ \A i, j \in 1..Len(loadingStack) : loadingStack[i] = loadingStack[j] => i = j
    /\ \A i \in 1..Len(loadingStack) : moduleCache[loadingStack[i]] = 0
    /\ \A i \in 2..Len(runs), j \in 1..Len(moduleVMs) :
           moduleVMs[j] = loadingStack[i - 1] => j <= runs[i].vm

\* The cache holds what the last run of each of its files exported, at its end.
CacheIsLast ==
    \A k \in Keys : moduleCache[k] # 0 =>
        /\ moduleCache[k] \in whole
        /\ moduleCache[k] <= Len(moduleVMs) /\ moduleVMs[moduleCache[k]] = k
        /\ \A j \in 1..Len(moduleVMs) : moduleVMs[j] = k => j <= moduleCache[k]

\* Who holds a module holds the one in the cache.
OneModulePerFile == \A v \in VMs, k \in Keys : bound[v][k] \in {0, moduleCache[k]}

\* Only modules in the cache have exports; an exported function reads the globals
\* of a module, and of one that exports it.
ExportsReadAnExporter ==
    /\ \A v \in VMs : exports[v] # {} => v # 0 /\ \E k \in Keys : moduleCache[k] = v
    /\ \A v \in VMs : \A u \in exports[v] : moduleGlobals[u] # 0
    /\ \A u \in VMs : moduleGlobals[u] # 0 => u \in exports[moduleGlobals[u]]

\* The loader's inductive invariant: loadFileModule and exportGlobals keep it.
IInv == TypeOK /\ LoadsNest /\ NoLoadTwice /\ CacheIsLast /\ OneModulePerFile /\ ExportsReadAnExporter

-----------------------------------------------------------------------------
(* What importers see *)

\* Every step of the loader is a step of the registry of modules, or none: a
\* file has one object for all its importers, made by one load that succeeded.
Registry == INSTANCE ModuleRegistry WITH
    Files <- Keys, Importers <- VMs, Objects <- VMs,
    pending <- loadingStack, instance <- moduleCache, imports <- bound
ImplementsModuleRegistry == Registry!RegistrySpec
=============================================================================
