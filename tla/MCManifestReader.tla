-------------------------- MODULE MCManifestReader --------------------------
(***************************************************************************)
(* Up to two application directories out of three names, manifests that    *)
(* agree or disagree with the directory's name, that name modes of another *)
(* function group or modes the machine does not have, and that cannot be   *)
(* read; machine manifests with no, one and two groups MachineState.  The  *)
(* names have underscores, share suffixes and are as short as can be.      *)
(***************************************************************************)
EXTENDS ManifestReader, TLC

MCChars == {"/", "_", "NUL", " ", "a", "b", "p"}
MCWord == 2^16
MCProcesses == <<"/", "p", "/">>
MCBinPath == <<"/", "b">>

A == <<"a">>
AA == <<"a", "a">>
A_A == <<"a", "_", "a">>
P == <<"p">>
A_P == <<"a", "_", "p">>

Ref(g, m) == [group |-> g, mode |-> m]
MS == "MachineState"

Manifest(id, processes) == [ok |-> TRUE, id |-> id, processes |-> processes]
Process(name, refs) == [name |-> name, refs |-> refs]

MCManifests(d) ==
    {Manifest(d, {Process(P, {Ref(MS, "Running"), Ref("Other", "Suspend")}),
                  Process(A_P, {Ref(MS, "Running"), Ref(MS, "Off")})}),
     Manifest(d, {Process(P, {Ref(MS, "Suspend")}), Process(A, {})}),
     Manifest(A, {Process(P, {Ref(MS, "Running")})}),
     Manifest(d, {}),
     [Manifest(d, {}) EXCEPT !.ok = FALSE]}

MCApplicationFolders ==
    UNION {{f \in [ds -> UNION {MCManifests(d) : d \in ds}] :
                \A d \in ds : f[d] \in MCManifests(d)} :
               ds \in {{}, {A}, {A_A}, {A, A_A}, {AA, A_A}}}

Group(name, modes) == [name |-> name, modes |-> modes]

MCMachineManifests ==
    {[ok |-> TRUE, groups |-> << >>],
     [ok |-> FALSE, groups |-> << >>],
     [ok |-> TRUE, groups |-> <<Group("Other", {"Off"}), Group(MS, {"Running", "Suspend"})>>],
     [ok |-> TRUE, groups |-> <<Group(MS, {"Running"}), Group(MS, {"Suspend"})>>]}
=============================================================================
