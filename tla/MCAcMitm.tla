------------------------------ MODULE MCAcMitm ------------------------------
(* Small sets of inputs for AcMitm.                                        *)
EXTENDS AcMitm

F(toggle, temp, fan, mode) ==
  [power_toggle |-> toggle, temp |-> temp, fan |-> fan, mode |-> mode]

(* A power key, and a settings key with a mode code that is in no table.   *)
MCFrames == {F(1, 5, 2, 1), F(0, 6, 2, 7)}
MCNoise == {NoFrame}

(* One key that changes all four settings of a factory-fresh state.        *)
MCOneKey == {F(1, 5, 3, 1)}
=============================================================================
