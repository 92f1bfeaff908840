----------------------------- MODULE MCMonitors -----------------------------
(* Monitors for TLC.                                                       *)
EXTENDS Monitors

Monitor(module, devices, metrics, checked, term, force, prompt) ==
    [module |-> module, devices |-> devices, metrics |-> metrics,
     checked |-> checked, term |-> term, force |-> force, prompt |-> prompt]

\* gm over two devices, with and without bounds, terminating and exiting, with
\* every metric among them; pesm over two devices.
AllConfigs ==
    {Monitor("gm", 2, {"clock", "fan"}, {"fan"}, TRUE, FALSE, TRUE),
     Monitor("gm", 2, {"temp", "power"}, {"temp"}, FALSE, FALSE, TRUE),
     Monitor("gm", 2, {"mem_clock"}, {}, FALSE, FALSE, FALSE),
     Monitor("gm", 1, {"temp", "power", "fan"}, {"temp", "power", "fan"}, TRUE, TRUE, TRUE),
     Monitor("gm", 1, {"clock", "power"}, {"clock", "power"}, TRUE, FALSE, FALSE),
     Monitor("gm", 1, {"fan", "power"}, {"fan"}, FALSE, FALSE, TRUE),
     Monitor("pesm", 2, {}, {}, FALSE, FALSE, TRUE),
     Monitor("pesm", 1, {}, {}, FALSE, FALSE, FALSE)}
=============================================================================
