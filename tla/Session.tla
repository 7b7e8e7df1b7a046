------------------------------ MODULE Session ------------------------------
(***************************************************************************)
(* The life of a device: the driver resolves a path and creates a device,  *)
(* set-up goes through its steps (device.c) and opens the session on the   *)
(* DSP (dsp/device.c, dsp/power_mode.c), executables are loaded through    *)
(* the executable cache (executable.c, dsp/executable.c), the device is    *)
(* destroyed. Any step may fail; what is undone then is the subject here.  *)
(*                                                                         *)
(* `held` is everything acquired and not given back: objects, registration *)
(* with the DSP, strings, the DSP's session data and power vote.           *)
(***************************************************************************)
EXTENDS Integers, Sequences, FiniteSets

CONSTANTS
  Domain,        \* the domain IDs with a URI suffix
  DefaultDomain, \* CDSP
  Path,          \* device paths given to the driver
  DomainOf,      \* DomainOf[path]: the ID that the path's number or name stands for
  PathLengths,   \* lengths of the path of the running binary
  FirstLinkSize, MaxLinkSize,  \* 64 and 65536 in the code
  HvxContexts, Workers,        \* of the DSP
  ConcurrencyOptions, BudgetOptions, \* values of the two options
  MiB,
  Exe,           \* executables
  NoDomain

ASSUME SessionAssumption ==
  /\ FirstLinkSize \in Nat \ {0} /\ MaxLinkSize \in Nat /\ MiB \in Nat \ {0}
  /\ HvxContexts \in Nat \ {0} /\ Workers \in Nat \ {0}
  /\ ConcurrencyOptions \subseteq Int /\ BudgetOptions \subseteq Int
  /\ Domain \subseteq Nat /\ NoDomain \notin Domain /\ DefaultDomain \in Domain

VARIABLES
  phase,    \* "idle", "setup", "ready", "failed", "destroyed"
  at,       \* index into SetUp of the step that comes next
  domain, pathLength, options,
  linkSize, \* size of the buffer for the path of the binary
  held,
  limit,    \* the session's max_concurrent_dispatches, 0 before it is opened
  budget,   \* the session's residency budget in bytes, 0 before it is set
  hostExe,  \* executables that exist on the host
  files,    \* executables whose temporary .so file exists
  dspExe,   \* what the DSP holds for each executable
  handles   \* executables of which recorded dispatches have a function handle

exeVars == <<hostExe, files, dspExe, handles>>
vars == <<phase, at, domain, pathLength, options, linkSize, held, limit, budget, exeVars>>

Init ==
  /\ phase = "idle" /\ at = 1 /\ domain = NoDomain
  /\ pathLength \in PathLengths
  /\ options \in [notify : BOOLEAN, concurrency : ConcurrencyOptions, budget : BudgetOptions]
  /\ linkSize = FirstLinkSize
  /\ held = {} /\ limit = 0 /\ budget = 0
  /\ hostExe = {} /\ files = {} /\ handles = {}
  /\ dspExe = [e \in Exe |-> {}]

(*********************************** set-up *********************************)

\* A step takes and gives back resources; when it fails, what it has itself in hand
\* is in `lost` (never given back) and `undone` is given back.
Step(name, takes, gives, lost, undone) ==
  [name |-> name, takes |-> takes, gives |-> gives, lost |-> lost, undone |-> undone]

DspSession == {"priv", "residency", "power"}

\* A mistake the runs must catch: the power vote survives a failing open.
OpenUndoneButPower == {"priv", "residency", "uri"}

\* A failing hexagon_dsp_open undoes its own steps; the host frees the URI either way.
OpenUndone == DspSession \cup {"uri"}

OpenStep(name, takes, gives) == Step(name, takes, gives, {}, OpenUndone)

SetUp == <<
  Step("verify", {}, {}, {}, {}),
  Step("malloc", {"device"}, {}, {}, {}),
  Step("proactor", {"proactors"}, {}, {"proactors"}, {}),
  Step("notify", {"notify"}, {}, {}, {}),
  Step("allocator", {"allocator"}, {}, {}, {}),
  Step("unsigned", {"blockPool"}, {}, {"blockPool"}, {}),
  Step("suffix", {}, {}, {}, {}),
  Step("procExe", {"procExe"}, {}, {"procExe"}, {}),
  Step("readlink", {"resolved"}, {"procExe"}, {"resolved"}, {}),
  Step("dirname", {"binaryDir"}, {"resolved"}, {}, {"resolved"}),
  Step("uriPrefix", {"uri"}, {"binaryDir"}, {"uri"}, {}),
  Step("uriRest", {}, {}, {}, {}),
  OpenStep("dspCalloc", {"priv"}, {}),
  OpenStep("dspResidency", {"residency"}, {}),
  OpenStep("powerContext", {"power"}, {}),
  OpenStep("powerHvx", {}, {}),
  OpenStep("powerHmx", {}, {}),
  OpenStep("powerVote", {}, {"uri"}),
  Step("setLimit", {}, {}, {}, {}),
  Step("setBudget", {}, {}, {}, {})>>

Current == SetUp[at]
InStep(name) == phase = "setup" /\ Current.name = name

\* query_available_devices, create_device_by_path: the empty path, a number, a name.
ResolvePath(path) == IF path = "" THEN DefaultDomain ELSE DomainOf[path]

CreateDevice(path) ==
  /\ phase = "idle"
  /\ LET d == ResolvePath(path) IN
       \/ d = NoDomain /\ phase' = "failed" /\ UNCHANGED domain
       \/ d # NoDomain /\ phase' = "setup" /\ domain' = d
  /\ UNCHANGED <<at, pathLength, options, linkSize, held, limit, budget, exeVars>>

HvxLimit == IF HvxContexts < Workers THEN HvxContexts ELSE Workers

\* A mistake the runs must catch: the limit is not clamped to the worker threads.
MaxConcurrentByHvx(n) ==
  CASE n = 1 -> 1
    [] n = 0 -> HvxContexts
    [] n < 0 \/ n > HvxContexts -> -1
    [] OTHER -> n

\* hexagon_dsp_set_max_concurrent_dispatches: the limit it stores, or -1.
MaxConcurrent(n) ==
  CASE n = 1 -> 1
    [] n = 0 -> HvxLimit
    [] n < 0 \/ n > HvxLimit -> -1
    [] OTHER -> n

\* hexagon_dsp_set_residency_budget: the budget it stores, or -1.
ResidencyBudget(mib) == IF mib * MiB <= 0 THEN -1 ELSE mib * MiB

\* What the step needs to succeed, besides luck.
Possible ==
  CASE Current.name = "verify"    -> options.concurrency >= 0
    [] Current.name = "suffix"    -> domain \in Domain
    [] Current.name = "readlink"  -> pathLength < linkSize
    [] Current.name = "setLimit"  -> MaxConcurrent(options.concurrency) # -1
    [] Current.name = "setBudget" -> ResidencyBudget(options.budget) # -1
    [] OTHER                      -> TRUE

Skipped == Current.name = "notify" /\ ~options.notify

SetUpStep ==
  /\ phase = "setup" /\ Possible
  /\ held' = IF Skipped THEN held ELSE (held \cup Current.takes) \ Current.gives
  /\ limit' = CASE Current.name = "powerVote" -> 1
                [] Current.name = "setLimit"  -> MaxConcurrent(options.concurrency)
                [] OTHER                      -> limit
  /\ budget' = IF Current.name = "setBudget" THEN ResidencyBudget(options.budget) ELSE budget
  /\ IF at = Len(SetUp) THEN phase' = "ready" /\ UNCHANGED at
                        ELSE phase' = "setup" /\ at' = at + 1
  /\ UNCHANGED <<domain, pathLength, options, linkSize, exeVars>>

\* A mistake the runs must catch: the buffer is tried again with the same size.
SameLinkSize == linkSize

\* The path of the binary did not fit: a buffer of twice the size, up to 64K.
NextLinkSize == linkSize * 2

EnlargeLink ==
  /\ InStep("readlink") /\ ~Possible /\ linkSize < MaxLinkSize
  /\ linkSize' = NextLinkSize
  /\ UNCHANGED <<phase, at, domain, pathLength, options, held, limit, budget, exeVars>>

\* hexagon_dsp_open returned a handle (and set the limit to one).
SessionOpen == limit > 0

\* device_destroy gives back all the device owns, and closes the session if there is one.
Destroyed ==
  (IF SessionOpen THEN DspSession ELSE {}) \cup {"proactors", "blockPool", "allocator", "device"}

\* A step fails. Once the device exists, device_create releases it, which destroys it.
SetUpFails ==
  /\ phase = "setup" /\ ~Skipped
  /\ InStep("readlink") /\ ~Possible => linkSize >= MaxLinkSize
  /\ \E lost \in SUBSET Current.lost :
       /\ InStep("readlink") /\ ~Possible => lost = {}
       /\ held' = ((held \cup lost) \ Current.undone) \ Destroyed
  /\ phase' = "failed"
  /\ limit' = 0 /\ budget' = 0
  /\ UNCHANGED <<at, domain, pathLength, options, linkSize, exeVars>>

(******************************** executables *******************************)

others == <<phase, at, domain, pathLength, options, linkSize, held, limit, budget>>

\* hexagon_dsp_executable_load, in the order in which it acquires; between the library
\* and the functions it checks the query function, the version and the imports.
LoadSteps == <<"struct", "name", "shlib", "functions">>
Loaded == {LoadSteps[k] : k \in DOMAIN LoadSteps}
Loading(e) == e \in hostExe /\ dspExe[e] # Loaded

\* prepare_executable: data that starts with the ELF magic is written to a temporary
\* .so file. It fails before the file exists, or the host destroys what it made.
PrepareExecutable(e) ==
  /\ phase = "ready" /\ e \notin hostExe /\ dspExe[e] = {}
  /\ hostExe' = hostExe \cup {e}
  /\ \/ files' = files \cup {e}
     \/ UNCHANGED files
  /\ UNCHANGED <<others, dspExe, handles>>

LoadStep(e) ==
  /\ Loading(e) /\ e \in files
  /\ dspExe' = [dspExe EXCEPT ![e] = @ \cup {LoadSteps[Cardinality(@) + 1]}]
  /\ UNCHANGED <<others, hostExe, files, handles>>

\* The n-th step on the DSP fails and closes what it had loaded, or the file could not
\* be written; the host destroys the executable, which unlinks the file.
LoadFails(e) ==
  /\ Loading(e)
  /\ dspExe' = [dspExe EXCEPT ![e] = {}]
  /\ hostExe' = hostExe \ {e} /\ files' = files \ {e}
  /\ UNCHANGED <<others, handles>>

\* lookup_function_by_name on the DSP, and a dispatch recorded with the handle. A
\* recorded dispatch does not retain the executable.
RecordDispatch(e) ==
  /\ phase = "ready" /\ e \in hostExe /\ ~Loading(e)
  /\ handles' = handles \cup {e}
  /\ UNCHANGED <<others, hostExe, files, dspExe>>

\* A mistake the runs must catch: the executable is closed on the DSP with its host
\* object, whatever commands were recorded.
DestroyAndClose(e) ==
  /\ e \in hostExe /\ ~Loading(e)
  /\ hostExe' = hostExe \ {e} /\ files' = files \ {e}
  /\ dspExe' = [dspExe EXCEPT ![e] = {}]
  /\ UNCHANGED <<others, handles>>

\* executable_destroy: unlinks the file and frees the object. hexagon_dsp_executable_close
\* is never called by the host: the DSP keeps the library.
DestroyExecutable(e) ==
  /\ e \in hostExe /\ ~Loading(e)
  /\ hostExe' = hostExe \ {e} /\ files' = files \ {e}
  /\ UNCHANGED <<others, dspExe, handles>>

\* The command buffers that recorded dispatches are gone.
DropHandles ==
  /\ handles # {}
  /\ handles' = {}
  /\ UNCHANGED <<others, hostExe, files, dspExe>>

\* The application destroys the device once all it created with it is released.
DestroyDevice ==
  /\ phase = "ready" /\ hostExe = {} /\ handles = {}
  /\ phase' = "destroyed"
  /\ held' = held \ Destroyed
  /\ limit' = 0 /\ budget' = 0
  /\ UNCHANGED <<at, domain, pathLength, options, linkSize, exeVars>>

Creating == (\E p \in Path : CreateDevice(p)) \/ SetUpStep \/ EnlargeLink \/ SetUpFails

Next ==
  \/ Creating
  \/ \E e \in Exe : 
       \/ PrepareExecutable(e) \/ LoadStep(e) \/ LoadFails(e)
       \/ RecordDispatch(e) \/ DestroyExecutable(e)
  \/ DropHandles \/ DestroyDevice

\* device_create runs on one thread without waiting for anything.
Spec == Init /\ [][Next]_vars /\ WF_vars(Creating)

(******************************** properties ********************************)

\* Strings that a failing step of the set-up never frees.
Strings == {"procExe", "resolved", "binaryDir", "uri"}

\* Whatever step of the set-up fails, and after an orderly destroy, the device has
\* given back its allocator, its pools and the DSP's session with its power vote and
\* its cache; only the status notification stays registered, and strings may leak. An
\* executable that fails to load leaves no file and nothing on the DSP.
TearDownIsComplete ==
  /\ phase = "failed" => held \subseteq {"notify"} \cup Strings
  /\ phase = "destroyed" => held \subseteq {"notify"}
  /\ files \subseteq hostExe
  /\ \A e \in Exe \ hostExe : dspExe[e] \in {{}, Loaded}

\* A device that is handed to the application has a session with a usable limit and
\* budget: between one dispatch and what the HVX contexts and workers allow, the
\* requested one unless it is 0, and a budget of the requested size.
ReadyMeansConfigured ==
  phase = "ready" =>
    /\ DspSession \subseteq held
    /\ limit \in 1 .. HvxLimit
    /\ options.concurrency # 0 => limit = options.concurrency
    /\ budget = options.budget * MiB /\ budget > 0

\* A recorded dispatch holds a function handle of a loaded executable, "valid as long
\* as the executable is loaded" (dsp/executable.h), even after the application released
\* the executable: no command retains it.
HandlesStayLoaded == \A e \in handles : "functions" \in dspExe[e]

\* device_create comes to an end, with a device or an error, however long the path of
\* the binary is.
CreationEnds == [](phase = "setup" => <>(phase \in {"ready", "failed"}))
=============================================================================
