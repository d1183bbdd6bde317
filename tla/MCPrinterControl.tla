-------------------------- MODULE MCPrinterControl --------------------------
(* A small instance of PrinterControl: one printer, a few profiles that inherit from one
   another, and numbers at and beyond the limits. *)
EXTENDS PrinterControl

P1 == [nozzle |-> 300, bed |-> 100, chamber |-> 0, aux |-> TRUE, fan |-> TRUE]
MCCaps == [C11 |-> P1, C12 |-> P1,
           N1 |-> [nozzle |-> 300, bed |-> 80, chamber |-> 0, aux |-> FALSE, fan |-> FALSE],
           C13 |-> [nozzle |-> 320, bed |-> 110, chamber |-> 60, aux |-> TRUE, fan |-> TRUE]]

MCFile == [id |-> "", setting |-> "", inherits |-> "", low |-> 0, high |-> <<0, 0>>,
           target |-> 0, plates |-> <<0, 0, 0, 0>>]

\* A chain of three, one of four, a parent that is missing and one that inherits from itself.
MCProfiles ==
  [root |-> [MCFile EXCEPT !.low = 190, !.high = <<0, 240>>, !.target = 210],
   base |-> [MCFile EXCEPT !.id = "GFA00", !.inherits = "root", !.target = 220,
                           !.plates = <<0, 60, 35, 0>>],
   basic |-> [MCFile EXCEPT !.setting = "GFSA00", !.inherits = "base", !.high = <<230, 0>>],
   matte |-> [MCFile EXCEPT !.setting = "GFSA01", !.inherits = "basic"],
   petg |-> [MCFile EXCEPT !.id = "GFG00", !.setting = "GFSG00", !.inherits = "none",
                           !.target = 245, !.plates = <<80, 0, 0, 0>>],
   loop |-> [MCFile EXCEPT !.setting = "GFSL00", !.inherits = "loop"]]

MCNameMatches == [PLA |-> {"root", "base", "basic", "matte"}, Basic |-> {"basic"}, GFG00 |-> {}]
MCColors == <<<<"GFA00", "FFFFFFFF">>, <<"GFA00", "000000FF">>>>

MCArg == [type |-> "Basic", id |-> "", setting |-> "", min |-> 0, max |-> 0, color |-> "",
          unit |-> 0, slot |-> 1]
MCFilamentArgs ==
  {MCArg, [MCArg EXCEPT !.type = "PLA", !.setting = "GFSA01", !.color = "FF0000FF"],
   [MCArg EXCEPT !.type = "GFG00", !.color = "FF0000FF"], [MCArg EXCEPT !.type = "PLA"],
   [MCArg EXCEPT !.id = "GFX", !.setting = "GFSX", !.color = "FF0000FF"]}

MCPrinters == {[model |-> "N1", ams |-> FALSE], [model |-> "C13", ams |-> TRUE]}
\* One process of each kind with one unasked report, two in a row, the second of which may
\* see answers to the first, and connections that break.
MCScript(tasks, pushes, breaks) == [tasks |-> tasks, pushes |-> pushes, breaks |-> breaks]
MCScripts == {MCScript(<<t>>, 1, 0) : t \in {"simple", "gcode", "autoPrint", "dump"}}
        \cup {MCScript(<<t>>, 0, 0) : t \in {"filament", "print"}}
        \cup {MCScript(<<t>>, 0, 1) : t \in {"gcode", "serve"}}
        \cup {MCScript(<<"gcode", "gcode">>, 0, 0)}

MCTemps == {60, 90, 320}
MCPercents == {100}
MCTargets == {3, 16}
MCLevels == {15}
=============================================================================
