---------------------------- MODULE TftpTransfer ----------------------------
(***************************************************************************)
(* One transfer of the TFTP server (internal/tftp: serveRequest, exchange):*)
(* the file goes out block by block, each packet sent again when its       *)
(* acknowledgement does not come in time, at most Retries times.  Block    *)
(* numbers are 16 bits wide and wrap.                                      *)
(*                                                                         *)
(* Packets carry their absolute number here, and code compares it modulo   *)
(* BlockMod, as that is all the wire shows.  The network loses, duplicates *)
(* and reorders packets, but delivers none that is more than Life blocks   *)
(* old.  The client, a boot loader, is external: it takes blocks in order, *)
(* acknowledges a repeated one again, and may give up with an error.       *)
(***************************************************************************)
EXTENDS Integers, Sequences

CONSTANTS
  Blocks,    \* DATA packets of the file, the last one short
  BlockMod,  \* 2^16
  Life,      \* how many blocks a packet can be late
  Retries    \* Config.Retries

ASSUME TransferOK ==
  /\ Blocks \in Nat \ {0} /\ BlockMod \in Nat \ {0} /\ Retries \in Nat \ {0}
  /\ Life \in Nat /\ Life + 2 <= BlockMod

VARIABLES
  phase,     \* sending the current packet, waiting for its acknowledgement, or ended
  block,     \* the packet under way: 0 for the OACK, else the number of the block
  attempt,   \* how often it was sent
  cut,  \* the context ended and closed the socket
  net,       \* packets that may still be delivered: <<kind, number>>
  got,       \* the client: blocks it has taken
  ready      \* the client has what it needs before the first block

transferVars == <<phase, block, attempt, cut, net, got, ready>>

TransferTypeOK ==
  /\ phase \in {"send", "receive", "completed", "failed"}
  /\ block \in 0..Blocks /\ attempt \in 0..Retries /\ cut \in BOOLEAN
  /\ net \subseteq {"data", "ack", "error"} \X (0..Blocks)
  /\ got \in Seq(0..Blocks) /\ Len(got) <= Blocks /\ ready \in BOOLEAN

TransferInit ==
  /\ phase = "send" /\ attempt = 0 /\ cut = FALSE
  /\ block \in {0, 1} /\ ready = (block = 1)  \* an OACK answers requested options
  /\ net = {} /\ got = <<>>

Same_LowHalf(m, n) == m % (BlockMod \div 2) = n % (BlockMod \div 2)
Same(m, n) == m % BlockMod = n % BlockMod

-----------------------------------------------------------------------------
(* exchange.                                                                *)

Unexhausted == attempt < Retries
Send ==
  /\ phase = "send" /\ Unexhausted /\ ~cut
  /\ net' = net \cup {<<"data", block>>}
  /\ attempt' = attempt + 1 /\ phase' = "receive"
  /\ UNCHANGED <<block, cut, got, ready>>

Timeout ==
  /\ phase = "receive"
  /\ phase' = "send"
  /\ UNCHANGED <<block, attempt, cut, net, got, ready>>

\* Any other acknowledgement is ignored, the deadline stays.  As the transfer moves
\* on, the packets that have become too old are lost.
Expected_Any(n) == TRUE
Expected(n) == Same(n, block)
Acknowledged(n) ==
  /\ phase = "receive" /\ <<"ack", n>> \in net /\ Expected(n)
  /\ IF block = Blocks
     THEN phase' = "completed" /\ UNCHANGED <<block, attempt, net>>
     ELSE /\ phase' = "send" /\ block' = block + 1 /\ attempt' = 0
          /\ net' = {p \in net : block + 1 - p[2] <= Life}
  /\ UNCHANGED <<cut, got, ready>>

\* No attempt left, a canceled context or a closed socket, the client's error.
Exhausted_Never == FALSE
Exhausted == attempt = Retries
Fails ==
  /\ \/ phase = "send" /\ Exhausted
     \/ phase \in {"send", "receive"} /\ cut
     \/ phase = "receive" /\ \E n \in 0..Blocks : <<"error", n>> \in net
  /\ phase' = "failed"
  /\ UNCHANGED <<block, attempt, cut, net, got, ready>>

Cancel ==
  /\ ~cut /\ cut' = TRUE
  /\ UNCHANGED <<phase, block, attempt, net, got, ready>>

-----------------------------------------------------------------------------
(* The client and the network.                                              *)

Reply(p) == net' = net \cup {p} /\ UNCHANGED <<phase, block, attempt, cut>>

TakeOptions ==
  /\ <<"data", 0>> \in net /\ got = <<>>
  /\ ready' = TRUE /\ Reply(<<"ack", 0>>)
  /\ UNCHANGED got

TakeBlock(n) ==
  /\ ready /\ n > 0 /\ <<"data", n>> \in net
  /\ Same(n, Len(got) + 1) /\ Len(got) < Blocks
  /\ got' = Append(got, n) /\ Reply(<<"ack", Len(got) + 1>>)
  /\ UNCHANGED ready

RepeatAck(n) ==
  /\ n > 0 /\ got # <<>> /\ <<"data", n>> \in net /\ Same(n, Len(got))
  /\ Reply(<<"ack", Len(got)>>)
  /\ UNCHANGED <<got, ready>>

GiveUp == Reply(<<"error", Len(got)>>) /\ UNCHANGED <<got, ready>>

Lose(p) ==
  /\ net' = net \ {p}
  /\ UNCHANGED <<phase, block, attempt, cut, got, ready>>

TransferNext ==
  \/ Send \/ Timeout \/ Fails \/ Cancel \/ TakeOptions \/ GiveUp
  \/ \E n \in 0..Blocks : Acknowledged(n) \/ TakeBlock(n) \/ RepeatAck(n)
  \/ \E p \in net : Lose(p)

TransferSpec == TransferInit /\ [][TransferNext]_transferVars

\* The server's own steps; nothing is assumed of the network or the client.
FairTransfer == TransferSpec /\ WF_transferVars(Send \/ Timeout \/ Fails)

-----------------------------------------------------------------------------

\* What the board boots is the file: no block twice, none left out, none from an
\* earlier round of the block numbers (exchange, dataPacket).
BlocksInOrder == \A i \in 1..Len(got) : got[i] = i

\* The server reports a transfer completed only when the client has all of it.
CompletedMeansReceived == phase = "completed" => Len(got) = Blocks

\* The server is never more than one block ahead of the client, whatever old
\* acknowledgements arrive: one that looks current is current.
Lockstep == Len(got) \in {block - 1, block}

\* Every transfer ends, whatever the client and the network do.
TransferOver == <>(phase \in {"completed", "failed"})
=============================================================================
