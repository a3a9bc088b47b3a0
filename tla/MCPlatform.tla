------------------------------ MODULE MCPlatform ------------------------------
(***************************************************************************)
(* Two requests and two deliveries in the background.  A behaviour has the     *)
(* operations and faults of one of the sets below.                           *)
(***************************************************************************)
EXTENDS Platform, TLC
CONSTANTS r1, r2, d1, d2, e1, e2, n1, n2, reset, p1, anchor, supplier, f1, f2, c1, paid

Occurring ==
  {{"endpoint", "emit", "overlap", "lost", e1, e2}, {"endpoint", "emit", "retry", "crash", e1},
   {"endpoint", "emit", "retry", "cancel", "lost", "logFails", e1}, {"endpoint", "edit", "emit", e1, e2},
   {"endpoint", "emit", "cancel", "overlap", e1},
   {"lifecycle", "send", "cancel", "overlap"}, {"lifecycle", "logFails", "cancel", "overlap"},
   {"create", "template", "send", "cancel", "logFails"}, {"template", "send", "crash", "lost"},
   {"template", "send", "patch", "cancel"},
   {"programme", "setStatus", "overlap"}, {"programme", "patchProgramme", "setStatus", "crash", "logFails"},
   {"programme", "participant", "overlap"},
   {"upload", "change", "retype", "storageFails", "crash", f1, f2}, {"upload", "change", "overlap", f1, f2},
   {"upload", "download", "change", "overlap", "logFails", f1}, {"upload", "download", "signedLinks", "crash", "logFails", f1, f2},
   {"upload", "download", "change", "documentRecord", f1}, {"connection", "connectionRecord", "overlap"},
   {"records", "connection"}, {"connection", "environment"}, {"connection", "overlap"},
   {"post", "dashboard", "overlap"}}

PaidOrAny == {{paid}, {"*"}}
===============================================================================
