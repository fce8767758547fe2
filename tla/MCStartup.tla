----------------------------- MODULE MCStartup -----------------------------
(* Startup on small machines: one rig with every choice of backend, build,  *)
(* driver and file, and two rigs that share the geometry cache.             *)
EXTENDS Startup

TwoCandidates == <<<<1, 1, 2>>, <<2, 1, 1>>>>
Shipped == <<1, 1, 2>>

Cli(b, g) == [backend |-> b, geometry |-> g, share |-> Unset, address |-> "addr20"]
File(b, g, s) ==
  [readable |-> TRUE,
   values |-> [backend |-> b, geometry |-> g, share |-> s, address |-> Unset]]
NoConfig == [readable |-> FALSE, values |-> Blank]
AnyFile == {NoConfig, File("auto", Unset, Unset), File("rocm", <<1, 2, 1>>, Unset),
            File(Unset, <<0, 1, 1>>, Unset), File(Unset, Unset, 50)}

AnyRig ==
  [used : {TRUE}, cli : {Cli(b, Unset) : b \in {Unset, "auto", "cpu", "opencl", "cuda"}},
   noAutoTune : BOOLEAN, allowCpuFallback : BOOLEAN, noWatchdog : {FALSE},
   noSuggest : {FALSE}, cuda : {"works", "errors", "panics late"},
   opencl : {"works", "errors"}, sweepsPanic : {FALSE}, rates : {0 .. 1},
   gpuIds : {"none"}, webhook : {"none"}]
NoRig ==
  [used |-> FALSE, cli |-> Blank, noAutoTune |-> TRUE, allowCpuFallback |-> FALSE,
   noWatchdog |-> FALSE, noSuggest |-> TRUE, cuda |-> "errors", opencl |-> "errors",
   sweepsPanic |-> FALSE, rates |-> 0 .. 1, gpuIds |-> "none", webhook |-> "none"]

\* Rigs that write, use, and ignore the cache.
Reader == [NoRig EXCEPT !.used = TRUE, !.cuda = "works", !.cli = Cli("cuda", Unset)]
Tuner == [Reader EXCEPT !.noAutoTune = FALSE]

Alone(rigs) == {[r \in Rigs |-> IF r = "0" THEN x ELSE NoRig] : x \in rigs}
OneRig ==
  [built : {{"cuda", "opencl"}}, mishaps : {1}, file : AnyFile, rigs : Alone(AnyRig)]
  \cup [built : {{"opencl"}, {}}, mishaps : {1}, file : {NoConfig},
          rigs : Alone(AnyRig)]
  \cup [built : {{"cuda", "opencl"}}, mishaps : {1}, file : {NoConfig},
          rigs : Alone({[x EXCEPT !.sweepsPanic = TRUE] : x \in {y \in AnyRig : y.noAutoTune}})]
Beside(x, n) ==
  [built : {{"cuda"}}, mishaps : {n}, file : {NoConfig},
   rigs : {[r \in Rigs |-> IF r = "0" THEN Tuner ELSE x]}]
TwoRigs == Beside(Reader, 2) \cup Beside(Tuner, 1)
FineRates ==
  [built : {{"cuda"}}, mishaps : {2}, file : {NoConfig},
   rigs : Alone({[Tuner EXCEPT !.rates = 0 .. 2]})]
Listed ==
  [built : {{"cuda"}}, mishaps : {1}, file : {NoConfig},
   rigs : Alone({[Reader EXCEPT !.gpuIds = g, !.webhook = w] :
                   g \in {"indices", "junk"}, w \in {"discord", "other host"}})]
AnySetup == OneRig \cup TwoRigs \cup FineRates \cup Listed

\* A rig whose driver panics when a context is created.
PanicSetup ==
  [built : {{"cuda", "opencl"}}, mishaps : {0}, file : {NoConfig},
   rigs : Alone({[x EXCEPT !.cuda = "panics"] : x \in AnyRig})]
=============================================================================
