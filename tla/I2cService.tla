---------------------------- MODULE I2cService ----------------------------
(***************************************************************************)
(* What the I2C bus driver promises the i2c core: one transfer at a time,  *)
(* the bytes of its messages moved strictly in order, each into its own    *)
(* place, and the answer "ok" only when every byte of every message moved. *)
(*                                                                         *)
(* A message is [rd, len]: the direction and the number of bytes.  A moved *)
(* byte is a triple <<m, i, v>>: byte v of a message arrived at place i of *)
(* message m (counted from 0), so a byte is where it belongs when v = i.   *)
(***************************************************************************)
EXTENDS Naturals, Sequences

CONSTANT Requests     \* the message arrays the i2c core passes to master_xfer

VARIABLES req,      \* the message array of the latest transfer
          moved,    \* the bytes it has moved
          result    \* "none" before the first one, "busy", "ok" or an error

vars == <<req, moved, result>>

Errors == {"ENODEV", "ETIMEDOUT"}

(* Every byte of the messages of r in its place.                           *)
Whole(r) == UNION {{<<m - 1, i, i>> : i \in 0 .. r[m].len - 1} : m \in DOMAIN r}

(* The order in which bytes cross the wire: message by message, ascending. *)
Before(b, c) == b[1] < c[1] \/ (b[1] = c[1] /\ b[2] < c[2])

Init == req = <<>> /\ moved = {} /\ result = "none"

Call(r) ==
  /\ result # "busy"
  /\ req' = r
  /\ moved' = {}
  /\ result' = "busy"

Move ==
  /\ result = "busy"
  /\ \E b \in Whole(req) \ moved :
       /\ \A c \in Whole(req) \ moved : c = b \/ Before(b, c)
       /\ moved' = moved \cup {b}
  /\ UNCHANGED <<req, result>>

Return(e) ==
  /\ result = "busy"
  /\ e = "ok" => moved = Whole(req)
  /\ result' = e
  /\ UNCHANGED <<req, moved>>

Next == \/ \E r \in Requests : Call(r)
        \/ Move
        \/ \E e \in Errors \cup {"ok"} : Return(e)

Spec == Init /\ [][Next]_vars
============================================================================
