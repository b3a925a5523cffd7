------------------------------ MODULE HsonFrame ------------------------------
(***************************************************************************)
(* The frame of a tunneled HTTP reply (api_manager.cc,                     *)
(* HttpTunnelingCommand): "HSON0001", the end of the MQTT message, the     *)
(* message, the end of the response header, the header, and the body up to *)
(* the end of the payload.  Ends are uint32_t offsets from the beginning   *)
(* of the frame, most significant byte first.  The frame is handed to the  *)
(* MQTT client with its size as an int.  Only sizes are modelled.          *)
(***************************************************************************)
EXTENDS Integers

CONSTANT Base  (* values of a byte: 256 in the code, fewer for TLC         *)

Protocol == 8    \* size of "HSON0001"
Borderline == 4  \* bytes of an offset

Byte(k) == <<1, Base, Base * Base, Base * Base * Base>>[k + 1]
Limit == Base * Base * Base * Base

\* The four bytes of a number, which is first cut to 32 bits.
Bytes(n) ==
  LET u == n % Limit
  IN [k \in 0..3 |-> (u \div Byte(k)) % Base]

Number(b) == b[3] * Byte(3) + b[2] * Byte(2) + b[1] * Byte(1) + b[0]

\* A size_t as the int parameter that it is passed to.
AsInt(n) ==
  LET u == n % Limit IN IF u < Limit \div 2 THEN u ELSE u - Limit

\* Mutant: the end of the header leaves out its own four bytes.
FrameShort(message, header, body) ==
  LET m == message + Protocol + Borderline
      h == m + header
  IN [message |-> Bytes(m), header |-> Bytes(h), size |-> h + Borderline + body]

\* The two offsets and the number of bytes.
Frame(message, header, body) ==
  LET m == message + Protocol + Borderline
      h == m + header + Borderline
  IN [message |-> Bytes(m), header |-> Bytes(h), size |-> h + body]

\* What a reader of the frame finds: sizes of message, header and body.
TakeApart(f) ==
  << Number(f.message) - Protocol - Borderline,
     Number(f.header) - Number(f.message) - Borderline,
     f.size - Number(f.header) >>
=============================================================================
