---------------------------- MODULE MCStatusFeed ----------------------------
(* A small instance of StatusFeed: the reports of a printer and the limits of
   printer_capabilities.json for the models they may be taken for. *)
EXTENDS StatusFeed

MCBedCap == [C11 |-> 100, C12 |-> 100, N1 |-> 80, C13 |-> 110]
MCChamberCap == [C11 |-> 0, C12 |-> 0, N1 |-> 0, C13 |-> 60]

MCPrint(carries, model, bed, light, fans) ==
  [NoMessage EXCEPT !.print = "ok", !.carries = carries,
                    !.values = [model |-> model, bed |-> bed, light |-> light, fans |-> fans]]
MCVersion(ota) == [NoMessage EXCEPT !.info = "get_version", !.ota = ota]

\* Reports that exercise every branch of onMessage, of an X1E with a chamber heater whose serial
\* prefix is not known and that tells its model in the get_version reply and, with its limit, in
\* a report; not every reply lists an ota module, and one report claims that it is a P1P.
MCMessages ==
  {MCPrint({"fans"}, "", 0, "none", TRUE), MCVersion("C13"),
   [MCVersion("") EXCEPT !.print = "bad"],
   [MCPrint({"model", "bed", "light"}, "C13", 110, "off", FALSE) EXCEPT !.info = "other"],
   MCPrint({"model", "fans"}, "C11", 0, "none", FALSE)}

\* At and beyond the limits of the chamber and of the bed.
MCTemps == {60, 110, 120}
=============================================================================
