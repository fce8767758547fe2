------------------------------- MODULE Options -------------------------------
(***************************************************************************)
(* The options a process runs with: command line over configuration file   *)
(* over built-in default (src/src/main.rs, src/src/config_file.rs), and    *)
(* the ones it refuses to start with (src/src/mining_config.rs).           *)
(***************************************************************************)
EXTENDS Naturals, Sequences

CONSTANTS
  Unset,            \* an option that is not given
  DefaultGeometry   \* the shipped launch geometry

Backends == {"auto", "cpu", "opencl", "cuda"}

\* Of a build with the GPU backends built.
DefaultBackend(built) ==
  IF "cuda" \in built THEN "cuda" ELSE IF "opencl" \in built THEN "opencl" ELSE "cpu"

\* The three sources hold the options "backend", "geometry", "share" (of the CPU
\* pool, in tenths) and "address".
Blank == [backend |-> Unset, geometry |-> Unset, share |-> Unset, address |-> Unset]

\* A file that is missing, unreadable or malformed is as good as a blank one.
Loaded(file) == IF file.readable THEN file.values ELSE Blank
\* A backend the file names wrongly is ignored.
ParseBackend(v) == IF v \in Backends THEN v ELSE Unset
FromFile(file) == [Loaded(file) EXCEPT !.backend = ParseBackend(@)]

Default(built) ==
  [backend |-> DefaultBackend(built), geometry |-> DefaultGeometry, share |-> 0,
   address |-> Unset]
Merged(cli, file, default) ==
  [o \in DOMAIN cli |->
     IF cli[o] # Unset THEN cli[o]
     ELSE IF FromFile(file)[o] # Unset THEN FromFile(file)[o] ELSE default[o]]

\* Only the command line pins a geometry.
GeometrySetExplicitly(cli) == cli.geometry # Unset
ShouldAutoTune(rig) == ~rig.noAutoTune /\ ~GeometrySetExplicitly(rig.cli)

ValidAddress(address) == address = "addr20"
ValidMining(opts) ==
  /\ opts.share \in 0 .. 10
  /\ \A d \in 1 .. 3 : opts.geometry[d] # 0

\* --gpu-id is a list of indices, the webhook an https one of Discord, or absent.
ParsesGpuIds(ids) == ids # "junk"
ValidWebhookUrl(url) == url # "other host"

Valid(opts, rig) ==
  /\ ValidAddress(opts.address) /\ ValidMining(opts)
  /\ ParsesGpuIds(rig.gpuIds) /\ ValidWebhookUrl(rig.webhook)

MayAlwaysFallBack(rig) == TRUE   \* mutant
MayFallBackToCpu(rig) == rig.allowCpuFallback

\* The CPU pool beside the backend and the GPU watchdog: neither with the CPU
\* backend, which has all the cores already and no GPU to watch.
CpuPoolShare(backend, opts) == IF backend = "cpu" THEN 0 ELSE opts.share
GpuWatched(backend, rig) == backend # "cpu" /\ ~rig.noWatchdog
=============================================================================
