--------------------------------- MODULE MCTcp ---------------------------------
(* Instances of Tcp for TLC. *)
EXTENDS Tcp

CONSTANTS ClientBytes, ServerBytes

\* The client's sequence numbers wrap around during the handshake and the data.
MCIss == [h \in {Client, Server} |-> IF h = Client THEN SeqMod - 2 ELSE 5]
MCCalls == [h \in {Client, Server} |->
              IF h = Client THEN {"connect", "connect_start", "shutdown_wr", "close"} ELSE {"abandon"}]
MCStreamLen == [h \in {Client, Server} |-> IF h = Client THEN ClientBytes ELSE ServerBytes]
================================================================================
