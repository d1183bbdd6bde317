----------------------------- MODULE MCHABridge -----------------------------
(* A P1S whose serial says P1P, and an H2D, with a chamber heater, whose serial says
   nothing and that looks like a P1S before it tells its model. The first meets every
   input and every fault, with temperatures a degree apart and a delta of two; the next
   two tell their models late, while announcements fail and the card changes; the last
   two meet users who refresh the file list while the hourly sync runs, around a change
   of the model and around a change of the card, when nothing can be announced at first. *)
EXTENDS HABridge

MCReport(m, temp, stage, light, hms, ams) ==
  [model |-> m, fans |-> FALSE, temp |-> temp, stage |-> stage, light |-> light,
   hms |-> hms, ams |-> ams]

Silent(temp) == MCReport("", temp, "IDLE", None, FALSE, FALSE)
Lit(m, light) == MCReport(m, 1, "IDLE", light, FALSE, FALSE)

Changing ==
  {MCReport("C11", 0, "RUNNING", "ON", TRUE, TRUE),
   MCReport("C12", 1, "RUNNING", "OFF", FALSE, TRUE),
   MCReport("C12", 2, "IDLE", "OFF", FALSE, FALSE)}
P1S == {Silent(1), Lit("C11", "ON"), Lit("C12", "ON")}
H2D == {Silent(1), Lit("C12", "ON"), Lit("O1D", "ON")}

MCReports == Changing \cup P1S \cup H2D \cup {Silent(0)}

MCPrinters ==
  {[serial |-> "C11", model |-> "C11", reports |-> Changing, happens |-> Happenings \ {"refresh"}],
   [serial |-> "C11", model |-> "C11", reports |-> P1S, happens |-> {"card", "break", "restart"}],
   [serial |-> "", model |-> "O1D", reports |-> H2D, happens |-> {"card", "break", "restart"}],
   [serial |-> "", model |-> "O1D", reports |-> {Silent(1), Lit("O1D", "ON")}, happens |-> {"refresh"}],
   [serial |-> "", model |-> "O1D", reports |-> {Silent(0), Lit("O1D", "ON")}, happens |-> {"refresh", "card"}]}
=============================================================================
