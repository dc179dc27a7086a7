--------------------------- MODULE ModuleRegistry ---------------------------
(***************************************************************************)
(* What the loading of modules promises: a file that has been loaded has    *)
(* one object, made once, which every importer gets and nothing replaces.   *)
(* Files are loaded inside one another, never inside themselves; a load     *)
(* that is abandoned leaves the file as it was.                             *)
(***************************************************************************)
EXTENDS Naturals, Sequences, SequencesExt

CONSTANTS Files, Importers, Objects

VARIABLES pending,      \* the files being loaded, the innermost last
          instance,     \* the object of each file that is loaded, 0 before
          imports       \* what each importer got for each file, 0 before
registryVars == <<pending, instance, imports>>

RegistryInit ==
    /\ pending = <<>>
    /\ instance = [f \in Files |-> 0]
    /\ imports = [i \in Importers |-> [f \in Files |-> 0]]

Begin(f) ==
    /\ instance[f] = 0
    /\ \A p \in 1..Len(pending) : pending[p] # f
    /\ pending' = Append(pending, f)
    /\ UNCHANGED <<instance, imports>>

\* The innermost load makes a new object; the importer that asked may keep it.
Complete(i, object) ==
    /\ pending # <<>> /\ object # 0
    /\ \A f \in Files : instance[f] # object
    /\ pending' = Front(pending)
    /\ instance' = [instance EXCEPT ![Last(pending)] = object]
    /\ \/ UNCHANGED imports
       \/ imports' = [imports EXCEPT ![i][Last(pending)] = object]

Abandon ==
    /\ pending # <<>>
    /\ pending' = Front(pending)
    /\ UNCHANGED <<instance, imports>>

Import(i, f) ==
    /\ instance[f] # 0
    /\ imports' = [imports EXCEPT ![i][f] = instance[f]]
    /\ UNCHANGED <<pending, instance>>

RegistryNext ==
    \/ \E f \in Files : Begin(f)
    \/ \E i \in Importers, object \in Objects : Complete(i, object)
    \/ Abandon
    \/ \E i \in Importers, f \in Files : Import(i, f)

RegistrySpec == RegistryInit /\ [][RegistryNext]_registryVars
=============================================================================
