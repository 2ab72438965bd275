-------------------------------- MODULE MCStcp --------------------------------
(***************************************************************************)
(* Instances of Stcp for TLC: every way a special byte can stand first,    *)
(* last, doubled or next to another special byte in a message.             *)
(***************************************************************************)
EXTENDS Stcp

CONSTANTS data

Bytes == {data} \cup Special

ShortPayloads == { <<b>> : b \in Bytes } \cup { <<b, c>> : b, c \in Bytes }
=============================================================================
