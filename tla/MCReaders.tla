----------------------------- MODULE MCReaders -----------------------------
(* One button and one knob for the driver, and two of what a report may    *)
(* say of the rest; three buttons and two knobs for the walk.              *)
EXTENDS Readers

CONSTANTS app, probe

MCButtons  == {"TopLeft"}
MCKnobs    == {"Mic"}
MCSpots    == {"here", "there"}
MCReadings == {"quiet", "loud"}

=============================================================================
