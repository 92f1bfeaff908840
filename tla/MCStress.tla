------------------------------ MODULE MCStress ------------------------------
(* Actions of the stress modules for TLC.                                  *)
EXTENDS Stress

Action(module, gpus, count, parallel, duration, ramp, loads, halt, secondary) ==
    [module |-> module, gpus |-> gpus, count |-> count, parallel |-> parallel,
     duration |-> duration, ramp |-> ramp, loads |-> loads, halt |-> halt,
     secondary |-> secondary]

\* gst: two GPUs at once and one after the other, twice, and without an end.
GstAction(gpus, count, parallel, duration, ramp) ==
    Action("gst", gpus, count, parallel, duration, ramp, {}, FALSE, FALSE)

\* perf, tst and iet.  iet runs once: what it does to its workers a second time is
\* undefined.
PerfAction(gpus, count, parallel, duration) ==
    Action("perf", gpus, count, parallel, duration, FALSE, {}, FALSE, FALSE)
TstAction(gpus, count, parallel) ==
    Action("tst", gpus, count, parallel, TRUE, FALSE, {}, FALSE, FALSE)
IetAction(gpus, parallel, loads, secondary) ==
    Action("iet", gpus, 1, parallel, TRUE, FALSE, loads, FALSE, secondary)

\* pulse, which has no count: 0 stands for one without a duration.
PulseAction(gpus, parallel, duration, halt, secondary) ==
    Action("pulse", gpus, IF duration THEN 1 ELSE 0, parallel, duration, FALSE, {},
           halt, secondary)

AllConfigs ==
    {GstAction(2, 2, TRUE, TRUE, TRUE), GstAction(2, 2, FALSE, FALSE, FALSE),
     GstAction(2, 0, FALSE, TRUE, TRUE), GstAction(1, 0, TRUE, TRUE, FALSE),
     PerfAction(2, 2, TRUE, TRUE), PerfAction(2, 1, FALSE, FALSE),
     TstAction(2, 1, FALSE), TstAction(1, 2, TRUE),
     IetAction(2, FALSE, {"compute", "bandwidth"}, TRUE), IetAction(1, TRUE, {"compute"}, FALSE),
     PulseAction(2, TRUE, TRUE, TRUE, FALSE), PulseAction(3, TRUE, TRUE, FALSE, TRUE),
     PulseAction(2, FALSE, TRUE, FALSE, TRUE),
     PulseAction(2, TRUE, FALSE, FALSE, FALSE)}

\* One GPU of gst, twice.
ErrorConfigs == {GstAction(1, 2, TRUE, FALSE, FALSE)}

\* Two GPUs of pulse that halt on no error.
BarrierConfigs == {PulseAction(2, TRUE, TRUE, FALSE, FALSE)}
=============================================================================
