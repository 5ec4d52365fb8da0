------------------------------- MODULE MCCrtc ------------------------------
EXTENDS CrtcFrames

\* Three rows of two lines and a line of adjustment, four characters of which
\* two are displayed; sync pulses of two.
Picture == [h_total |-> 3, h_disp |-> 2, h_syncpos |-> 3, h_syncwidth |-> 0,
            v_total |-> 2, v_totaladj |-> 1, v_disp |-> 2, v_syncpos |-> 2,
            v_maxscan |-> 1, start_hi |-> 0, start_lo |-> 3]
OnePicture == {Picture}
To(reg, vals) == [reg : {reg}, val : vals]
AllWrites == To("h_total", {1, 3}) \cup To("h_disp", {1}) \cup To("h_syncpos", {1})
               \cup To("h_syncwidth", {1}) \cup To("v_total", {1, 2, 3})
               \cup To("v_totaladj", {0, 2, 3}) \cup To("v_disp", {1})
               \cup To("v_syncpos", {1}) \cup To("v_maxscan", {0, 1})
               \cup To("start_hi", {1}) \cup To("start_lo", {0})
=============================================================================
