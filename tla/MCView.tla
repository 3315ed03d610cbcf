------------------------------- MODULE MCView -------------------------------
(* A finite instance of View: a panel of 2 by 5 cells, of which the altimeter *)
(* takes 3, one of them for its contents; speeds on both sides of every limit *)
(* and documents with numbers that no knob could set.                         *)
EXTENDS View

MCParams ==
    {"IAS_FULL_SCALE", "V_R", "V_FE", "V_NO", "V_NE", "SHOW_ALTIMETER", "DECLUTTER",
     "ROTATE_SCREEN", "SCREEN_BRIGHTNESS", "SHOW_NUMERIC_AIRSPEED"}

Document(members) ==
    [p \in MCParams |-> IF p \in DOMAIN members THEN members[p] ELSE absent]
MCDocs ==
    { Document([DECLUTTER |-> yes, SCREEN_BRIGHTNESS |-> 150]),
      Document([DECLUTTER |-> no, V_R |-> 0, V_FE |-> 0, SCREEN_BRIGHTNESS |-> -10]),
      Document([IAS_FULL_SCALE |-> 0, V_R |-> 5000]),
      Document([IAS_FULL_SCALE |-> 10000, ROTATE_SCREEN |-> no]),
      Document([ROTATE_SCREEN |-> yes]) }
MCKnob == {"SHOW_ALTIMETER", "SHOW_NUMERIC_AIRSPEED"}

Air(ias, tas, altitude, climb) ==
    [ias |-> ias, tas |-> tas, altitude |-> altitude, climb |-> climb]
MCAirs ==
    { Air(0, 0, -7, 0), Air(400, 400, 999, 501), Air(3000, 3300, -1001, -4000),
      Air(9000, 8000, 12345, NaN), Air(9000, 9900, NaN, 500) }
=============================================================================
