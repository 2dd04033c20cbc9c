--------------------------- MODULE ManifestReader ---------------------------
(***************************************************************************)
(* How the Execution Manager comes to know its services.  Its constructor  *)
(* reads the manifest of every application and then the machine manifest,  *)
(* and keeps the modes that both name; an exception of the reader is       *)
(* caught nowhere and ends the process.  Once it serves, it starts         *)
(* services by name, and each process reports under the name it works out  *)
(* for itself (module ServiceNames).                                       *)
(*                                                                         *)
(* A manifest is what from_json makes of the file: ok is FALSE where the   *)
(* file is missing, is no JSON or lacks a key, and the reader throws.      *)
(* Start-up options are read and never used: they are left out.            *)
(***************************************************************************)
EXTENDS ServiceNames

CONSTANTS
    BinPath,              \* the path of the applications folder
    ApplicationFolders,   \* set of [directory name -> application manifest]
    MachineManifests      \* set of machine manifests

machineStateFunctionGroup == "MachineState"

(***************************************************************************)
(* An application manifest has an ok flag, an id and a set of processes,   *)
(* each with a name and the function groups and modes of all its start-up  *)
(* configurations.  A machine manifest has an ok flag and a sequence of    *)
(* mode declaration groups.                                                *)
(***************************************************************************)
IsFileName(s) ==
    /\ s \in Seq(Chars)
    /\ \A i \in DOMAIN s : s[i] \notin {Slash, NUL}

\* The binary and the unit that add_adaptive_application makes of a process.
BinaryPath(d, proc) == BinPath \o <<Slash>> \o d \o Processes \o proc
UnitName(d, proc) == d \o <<Underscore>> \o proc

\* Directories and binaries have the names a file can have, the string read
\* from cmdline is shorter than size_t can count and has no blank, at which
\* >> would cut it off.
ASSUME NamesAssumption ==
    /\ BinPath \in Seq(Chars)
    /\ \A f \in ApplicationFolders : \A d \in DOMAIN f :
          /\ IsFileName(d)
          /\ \A p \in f[d].processes :
                /\ IsFileName(p.name)
                /\ Len(BinaryPath(d, p.name)) + 1 < Word
                /\ ~Has(BinaryPath(d, p.name), Blank)

VARIABLES
    opens,        \* opendir of the applications folder succeeds
    folder,       \* directory name |-> manifest in it
    machine,      \* the machine manifest
    phase,        \* how far the constructor of the Execution Manager is
    files,        \* directories whose manifest is still to be read
    supported,    \* m_allowedProcessesForState
    states,       \* m_machineManifestStates, as a set
    started       \* what was started: service, directory, process, report

vars == <<opens, folder, machine, phase, files, supported, states, started>>
disk == <<opens, folder, machine>>

Init ==
    /\ opens \in BOOLEAN
    /\ folder \in ApplicationFolders
    /\ machine \in MachineManifests
    /\ phase = "listing"
    /\ files = {}
    /\ supported = << >>
    /\ states = {}
    /\ started = {}

\* The exception leaves the constructor and main, which catches only
\* kj::Exception.
Throw ==
    /\ phase' = "dead"
    /\ UNCHANGED <<disk, files, supported, states, started>>

\* A variant for the mutants: the entries "." and ".." are not left out.
ListAllEntries ==
    /\ phase = "listing"
    /\ opens
    /\ files' = DOMAIN folder \cup {<<".">>, <<".", ".">>}
    /\ phase' = "applications"
    /\ UNCHANGED <<disk, supported, states, started>>

getListOfApplications ==
    /\ phase = "listing"
    /\ opens
    /\ files' = DOMAIN folder
    /\ phase' = "applications"
    /\ UNCHANGED <<disk, supported, states, started>>

OpendirFails == phase = "listing" /\ ~opens /\ Throw

MachineStateRefs(process) ==
    {ref \in process.refs : ref.group = machineStateFunctionGroup}

\* The modes the processes of a manifest name, and the services of a mode.
ModesOf(manifest) ==
    UNION {{ref.mode : ref \in MachineStateRefs(p)} : p \in manifest.processes}

ServicesOf(manifest, mode) ==
    {getServiceName(manifest.id, p.name) :
        p \in {q \in manifest.processes :
                  \E ref \in MachineStateRefs(q) : ref.mode = mode}}

At(map, key) == IF key \in DOMAIN map THEN map[key] ELSE {}

\* A variant for the mutants: res[mode] is assigned, not inserted into.
ReadAssigns(d) ==
    /\ phase = "applications" /\ d \in files /\ folder[d].ok
    /\ supported' = [m \in DOMAIN supported \cup ModesOf(folder[d]) |->
                        IF m \in ModesOf(folder[d])
                        THEN ServicesOf(folder[d], m) ELSE supported[m]]
    /\ files' = files \ {d}
    /\ UNCHANGED <<disk, phase, states, started>>

ReadManifest(d) ==
    /\ phase = "applications" /\ d \in files /\ folder[d].ok
    /\ supported' = [m \in DOMAIN supported \cup ModesOf(folder[d]) |->
                        At(supported, m) \cup ServicesOf(folder[d], m)]
    /\ files' = files \ {d}
    /\ UNCHANGED <<disk, phase, states, started>>

ManifestFails(d) ==
    phase = "applications" /\ d \in files /\ ~folder[d].ok /\ Throw

\* The first group with the name, as find_if finds it.
FirstGroup(g) ==
    /\ g \in DOMAIN machine.groups
    /\ machine.groups[g].name = machineStateFunctionGroup
    /\ \A h \in 1 .. g - 1 : machine.groups[h].name # machineStateFunctionGroup

getMachineStates ==
    /\ phase = "applications" /\ files = {} /\ machine.ok
    /\ states' = UNION {machine.groups[g].modes :
                           g \in {h \in DOMAIN machine.groups : FirstGroup(h)}}
    /\ phase' = "filter"
    /\ UNCHANGED <<disk, files, supported, started>>

MachineManifestFails ==
    phase = "applications" /\ files = {} /\ ~machine.ok /\ Throw

filterStates ==
    /\ phase = "filter"
    /\ supported' = [m \in DOMAIN supported \cap states |-> supported[m]]
    /\ phase' = "serving"
    /\ UNCHANGED <<disk, files, states, started>>

\* The EM starts a service of a mode; the process of the unit with that
\* name, if there is one, runs and reports its state.
Start(mode, d, p) ==
    LET service == UnitName(d, p.name)
    IN  /\ phase = "serving"
        /\ mode \in DOMAIN supported /\ service \in supported[mode]
        /\ started' = started \cup
             {[service |-> service, dir |-> d, proc |-> p.name,
               reported |-> ReportedName(BinaryPath(d, p.name)),
               pidof |-> PidofName(service)]}
        /\ UNCHANGED <<disk, phase, files, supported, states>>

Next ==
    \/ getListOfApplications
    \/ OpendirFails
    \/ \E d \in files : ReadManifest(d) \/ ManifestFails(d)
    \/ getMachineStates
    \/ MachineManifestFails
    \/ filterStates
    \/ \E mode \in DOMAIN supported, d \in DOMAIN folder :
          \E p \in folder[d].processes : Start(mode, d, p)

Spec == Init /\ [][Next]_vars
-----------------------------------------------------------------------------
(***************************************************************************)
(* Properties                                                              *)
(***************************************************************************)

\* The type invariant: the list of directories and the map of modes hold
\* what the folder has.
ReaderTypeOK ==
    /\ opens \in BOOLEAN
    /\ folder \in ApplicationFolders
    /\ machine \in MachineManifests
    /\ phase \in {"listing", "applications", "filter", "serving", "dead"}
    /\ files \subseteq DOMAIN folder
    /\ DOMAIN supported \subseteq UNION {ModesOf(folder[d]) : d \in DOMAIN folder}
    /\ started # {} => phase = "serving"

\* What the manifests say: the services of a mode, over all applications.
DeclaredServices(mode) ==
    UNION {ServicesOf(folder[d], mode) : d \in DOMAIN folder}

\* The Execution Manager serves only when every manifest could be read, and
\* then has, for each mode of the first group MachineState of the machine
\* manifest that an application names, exactly the services of all
\* applications for it, and nothing for any other mode: the order of the
\* directories, modes of other function groups and several applications or
\* start-up configurations that name one mode make no difference
\* (ManifestReader::getStatesSupportedByApplication, getMachineStates and
\* ExecutionManager::filterStates).
ServesWhatIsDeclared ==
    phase = "serving" =>
        /\ machine.ok /\ \A d \in DOMAIN folder : folder[d].ok
        /\ \A mode \in DOMAIN supported :
              /\ supported[mode] = DeclaredServices(mode)
              /\ \E g \in DOMAIN machine.groups :
                    FirstGroup(g) /\ mode \in machine.groups[g].modes
        /\ \A g \in DOMAIN machine.groups : FirstGroup(g) =>
              \A mode \in machine.groups[g].modes :
                  DeclaredServices(mode) # {} => mode \in DOMAIN supported

\* A process reports under the very name it was started by, although it works
\* that name out of its path, whatever the names are and whatever stands
\* before the application's directory, as long as there is no blank in it: the
\* EM's bookkeeping of the process depends on it (common::parseServiceName,
\* ApplicationStateClient::ReportApplicationState).
ReportsAsItsService ==
    \A r \in started : r.reported = r.service

\* The start-up poll asks pidof for the process that runs, provided the
\* application's name has no underscore (ApplicationHandler::isActiveProcess).
PollsItsProcess ==
    \A r \in started :
        (\A i \in DOMAIN r.dir : r.dir[i] # Underscore) => r.pidof = r.proc
=============================================================================
