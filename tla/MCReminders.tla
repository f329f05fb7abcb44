---------------------------- MODULE MCReminders -----------------------------
(* Reminders on a small instance: one follow-up and two passes.  A key     *)
(* lives one moment longer than its follow-up is ahead.                    *)
EXTENDS Reminders
=============================================================================
