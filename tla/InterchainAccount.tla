------------------------- MODULE InterchainAccount -------------------------
(***************************************************************************)
(* The interchain account contract: it registers an account on a remote    *)
(* chain over an ordered channel, sends it messages for its owner and for  *)
(* approved libraries, and follows the channel through the sudo calls of   *)
(* the chain.  A library that moves the remote funds (ica-ibc-transfer,    *)
(* ica-cctp-transfer) reads the remote address and sends in one            *)
(* transaction.                                                            *)
(*                                                                         *)
(* Channels, the handshake and the packets are the chain's (external): an  *)
(* ordered channel closes when one of its packets times out, the packets   *)
(* that are left on it time out one by one afterwards, and a handshake     *)
(* cannot complete while another channel of the account is open.           *)
(***************************************************************************)
EXTENDS Integers, Sequences, FiniteSets

CONSTANTS Remote,        \* addresses the remote chain may give the account
          Library,       \* the libraries that may be approved
          Admin,         \* who may own the account contract
          FirstAdmin,    \* the first owner
          RegisterFee,   \* price of a registration
          PacketFee,     \* price of a packet
          MaxPurse,      \* bound on what is deposited for the fees
          MaxChannels,   \* bound on registrations
          MaxPackets     \* bound on messages sent

VARIABLES ica_state,     \* ICA_STATE: its [status, address]
          approvals,     \* APPROVED_LIBRARIES, the owner and the offered owner
          purse,         \* the contract's balance of the fee denom
          channels,      \* per registration [phase, address]
          packets,       \* in flight: [channel, from, seq]
          packetsSent,   \* messages sent so far
          misled         \* history: since the account was last opened or registered, a
                         \*   closed channel's packet timed out or a version was not read

icaVars == <<ica_state, approvals, purse, channels, packets, packetsSent, misled>>

Status == {"NotCreated", "Closed", "InProgress", "Created"}
Nowhere == "nowhere"
Ica(status, address) == [status |-> status, address |-> address]
OpenChannels == {c \in DOMAIN channels : channels[c].phase = "open"}

IcaInit ==
  /\ ica_state = Ica("NotCreated", Nowhere)
  /\ approvals = [owner |-> FirstAdmin, pending |-> Nowhere, libraries |-> {}]
  /\ purse = 0
  /\ channels = << >>
  /\ packets = {}
  /\ packetsSent = 0
  /\ misled = FALSE

-----------------------------------------------------------------------------
(* The contract.                                                           *)

IsOwner(sender) == sender = approvals.owner
\* is_owner or in APPROVED_LIBRARIES.
MaySend(sender) == IsOwner(sender) \/ sender \in approvals.libraries

approve_ica_library(sender, l) ==
  /\ IsOwner(sender)
  /\ approvals' = [approvals EXCEPT !.libraries = @ \cup {l}]
  /\ UNCHANGED <<ica_state, purse, channels, packets, packetsSent, misled>>

remove_ica_library(sender, l) ==
  /\ IsOwner(sender)
  /\ approvals' = [approvals EXCEPT !.libraries = @ \ {l}]
  /\ UNCHANGED <<ica_state, purse, channels, packets, packetsSent, misled>>

\* cw_ownable: the owner offers, the offered one accepts.
update_ica_ownership(sender, to) ==
  /\ \/ /\ IsOwner(sender)
        /\ approvals' = [approvals EXCEPT !.pending = to]
     \/ /\ sender = approvals.pending /\ to = sender
        /\ approvals' = [approvals EXCEPT !.owner = sender, !.pending = Nowhere]
  /\ UNCHANGED <<ica_state, purse, channels, packets, packetsSent, misled>>

\* The messages are carried out on this chain: here, one that takes coins back.
execute_msg(sender, amount) ==
  /\ MaySend(sender)
  /\ amount <= purse
  /\ purse' = purse - amount
  /\ UNCHANGED <<ica_state, approvals, channels, packets, packetsSent, misled>>

\* Variant: only the first registration is let through.
registrable_once(status) == status = "NotCreated"
registrable(status) == status \in {"NotCreated", "Closed"}

\* Open to anyone.  The chain refuses it, and with it the whole transaction,
\* while a channel of the account is open.
try_register_ica ==
  /\ registrable(ica_state.status)
  /\ purse >= RegisterFee
  /\ OpenChannels = {}
  /\ Len(channels) < MaxChannels
  /\ ica_state' = Ica("InProgress", Nowhere)
  /\ purse' = purse - RegisterFee
  /\ channels' = Append(channels, [phase |-> "handshake", address |-> Nowhere])
  /\ misled' = FALSE
  /\ UNCHANGED <<approvals, packets, packetsSent>>

\* The contract checks the sender and the fee; the chain refuses a message when
\* no channel is open.
execute_ica_msg(sender, from) ==
  /\ MaySend(sender)
  /\ purse >= PacketFee
  /\ packetsSent < MaxPackets
  /\ packetsSent' = packetsSent + 1
  /\ purse' = purse - PacketFee
  /\ \E c \in OpenChannels :
       packets' = packets \cup {[channel |-> c, from |-> from, seq |-> packetsSent + 1]}
  /\ UNCHANGED <<ica_state, approvals, channels, misled>>

-----------------------------------------------------------------------------
(* The libraries of the interchain account.                                *)

\* The address, once the account is created.
get_remote_ica_address(address) ==
  ica_state.status = "Created" /\ address = ica_state.address

\* process_function: a transfer from the remote address.
transferRemote(l) ==
  \E address \in Remote : get_remote_ica_address(address) /\ execute_ica_msg(l, address)

-----------------------------------------------------------------------------
(* The chain and its calls of sudo.                                        *)

Close(c) == channels' = [channels EXCEPT ![c].phase = "closed"]

\* An answer, or an error, to a packet.  One that names no sequence or no channel
\* tells that the channel closed.
sudo_response(p, named) ==
  /\ p \in packets /\ channels[p.channel].phase = "open"
  /\ packets' = packets \ {p}
  /\ IF named
     THEN UNCHANGED <<ica_state, channels>>
     ELSE ica_state' = Ica("Closed", Nowhere) /\ Close(p.channel)
  /\ UNCHANGED <<approvals, purse, packetsSent, misled>>

\* Variant: a timeout is only reported.
sudo_timeout_noted(p) ==
  /\ p \in packets
  /\ packets' = packets \ {p}
  /\ Close(p.channel)
  /\ UNCHANGED <<ica_state, approvals, purse, packetsSent, misled>>

\* A packet times out: its channel is closed now, if it was not already.  The contract
\* does not look at which channel the packet was on.
sudo_timeout(p) ==
  /\ p \in packets
  /\ packets' = packets \ {p}
  /\ Close(p.channel)
  /\ ica_state' = Ica("Closed", Nowhere)
  /\ misled' = (misled \/ channels[p.channel].phase = "closed")
  /\ UNCHANGED <<approvals, purse, packetsSent>>

\* A handshake completes and the remote chain has given an address.  The contract
\* fails, which the chain ignores, when it cannot parse the counterparty's version.
sudo_open_ack(c, address, parsed) ==
  /\ channels[c].phase = "handshake" /\ OpenChannels = {}
  /\ channels' = [channels EXCEPT ![c] = [phase |-> "open", address |-> address]]
  /\ ica_state' = IF parsed THEN Ica("Created", address) ELSE ica_state
  /\ misled' = ~parsed
  /\ UNCHANGED <<approvals, purse, packets, packetsSent>>

\* Anyone sends coins for the fees.
fund ==
  /\ purse < MaxPurse
  /\ purse' = purse + 1
  /\ UNCHANGED <<ica_state, approvals, channels, packets, packetsSent, misled>>

-----------------------------------------------------------------------------
openAck == \E c \in DOMAIN channels, a \in Remote : sudo_open_ack(c, a, TRUE)

IcaNext ==
  \/ \E sender \in Admin, l \in Library :
       approve_ica_library(sender, l) \/ remove_ica_library(sender, l)
  \/ \E sender, to \in Admin : update_ica_ownership(sender, to)
  \/ \E sender \in Admin \cup Library : execute_msg(sender, 1) \/ execute_ica_msg(sender, Nowhere)
  \/ try_register_ica
  \/ \E l \in Library : transferRemote(l)
  \/ \E p \in packets : sudo_timeout(p) \/ \E named \in BOOLEAN : sudo_response(p, named)
  \/ openAck
  \/ \E c \in DOMAIN channels, a \in Remote : sudo_open_ack(c, a, FALSE)
  \/ fund

IcaSpec == IcaInit /\ [][IcaNext]_icaVars

\* Registration is open to anyone, so somebody keeps trying; relayers complete the
\* handshakes.
IcaFairness == WF_icaVars(try_register_ica) /\ WF_icaVars(openAck)

-----------------------------------------------------------------------------
\* While the contract says that the account is created, a channel is open and leads
\* to that very address, and what a library sends in its name travels on a channel
\* to it: however many registrations, late timeouts and refused versions came before.
LibrariesSpeakForTheAccount ==
  /\ ica_state.status = "Created" =>
       \E c \in OpenChannels : channels[c].address = ica_state.address
  /\ \A p \in packets : p.from # Nowhere => p.from = channels[p.channel].address

\* An account that closed is created again, as long as its fee is there, and the
\* contract knows its address again: unless a timeout of an older channel reached it
\* after the new one had opened, or it could not read the version of the channel that
\* opened.  In those cases the contract says Closed ("creation should be retriggered",
\* interchain_accounts.md), or InProgress, of an account whose channel is open, and
\* nobody can register it again until a packet of that channel times out.
Reopens ==
  []<>(\/ ica_state.status = "Created"
       \/ misled /\ OpenChannels # {}
       \/ purse < RegisterFee \/ Len(channels) = MaxChannels)
=============================================================================
