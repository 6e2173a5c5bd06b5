----------------------------- MODULE MCActivity -----------------------------
(* Small instances of Activity for TLC. *)
EXTENDS Activity

CONSTANTS station, broker, oem, v1, v2

\* One tab looks as the broker, the other as nobody.
MCActingAs == v1 :> broker @@ v2 :> Nobody
=============================================================================
