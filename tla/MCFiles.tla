------------------------------- MODULE MCFiles --------------------------------
(***************************************************************************)
(* The files the program keeps or reads. A behaviour is about the journal: *)
(* three WriteTo calls, one of them with a journal Validate refuses, and a *)
(* Load call that may be repeated; about a key file: three commands on one *)
(* path; or about a configuration: one of MCConfig's files.                *)
(***************************************************************************)
EXTENDS JournalStore, KeyFiles, MCConfig

CONSTANTS w1, w2, w3, r1, p1, p2, p3

MCWrites  == {w1, w2, w3}
MCValid   == {w1, w2}
MCReaders == {r1}
MCProcs   == {p1, p2, p3}

VARIABLE about    \* "journal", "key" or "config"

AnyFile == CHOOSE f \in Files : TRUE

FilesInit ==
    /\ \/ about = "journal" /\ name = NoFile /\ file = AnyFile
       \/ about = "key" /\ file = AnyFile
       \/ about = "config" /\ name = NoFile
    /\ Init /\ KeyInit /\ ConfigInit

FilesNext ==
    \/ about = "journal" /\ Next /\ UNCHANGED <<keyVars, configVars, about>>
    \/ about = "key" /\ KeyNext /\ UNCHANGED <<vars, configVars, about>>
    \/ about = "config" /\ ConfigNext /\ UNCHANGED <<vars, keyVars, about>>

FilesSpec == FilesInit /\ [][FilesNext]_<<vars, keyVars, configVars, about>>

Symmetry == Permutations(MCValid) \cup Permutations(MCProcs)
===============================================================================
