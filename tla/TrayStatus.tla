----------------------------- MODULE TrayStatus -----------------------------
(***************************************************************************)
(* What the tray promises the rest of XNote through its two questions,     *)
(* xpad_tray_has_indicator and xpad_tray_ready: whether an icon can be     *)
(* reached, and whether that is known yet.  xpad_pad_close decides between *)
(* hiding a pad and quitting by the first, the first idle check waits for  *)
(* the second.  Tray implements it; Desktop is written against it.         *)
(***************************************************************************)
VARIABLES
    armed,      \* whether the tray runs: its bus name is asked for or owned
    indicator,  \* xpad_tray_has_indicator()
    ready       \* xpad_tray_ready()

status == <<armed, indicator, ready>>

StatusInit == armed = FALSE /\ indicator = FALSE /\ ready = TRUE

\* The tray is started: nothing is known until the bus has answered.
Arm == ~armed /\ armed' = TRUE /\ indicator' = FALSE /\ ready' = FALSE

\* The bus has answered or the watcher has come or gone.
Learn ==
    /\ armed /\ armed' = TRUE
    /\ ready' \in BOOLEAN /\ (ready => ready')
    /\ indicator' \in BOOLEAN /\ (indicator' => ready')

\* The tray is stopped; it was never there, and that is an answer too.
Disarm == armed' = FALSE /\ indicator' = FALSE /\ ready' = TRUE

StatusNext == Arm \/ Learn \/ Disarm

StatusSpec == StatusInit /\ [][StatusNext]_status

=============================================================================
