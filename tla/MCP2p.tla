------------------------------- MODULE MCP2p -------------------------------
(***************************************************************************)
(* The peer-to-peer stack in one run: the ICE agent (IceAgent), the NAT    *)
(* type probe (Stun) and two peer connections with their transports and    *)
(* data channels (Peer); below them the DTLS handshake and the channels of *)
(* one association in detail (both in Peer), the data of a TURN client;    *)
(* and what goes over the wire: STUN messages and session descriptions     *)
(* (all in Stun).  The probe and the lower layers share no state with the  *)
(* others, and a peer connection sees of its agent the states it reports,  *)
(* which AgentReports checks; so a behaviour is one of one part, which     *)
(* part names, and its state is s (with net and misled for the peer        *)
(* connections).                                                           *)
(***************************************************************************)
EXTENDS Integers, Sequences, FiniteSets

CONSTANTS r1, r2, r3          \* two addresses the remote peer signals, and one it does not

VARIABLES part, s, net, misled

(* The agents checked: without servers but with failing sends, a request   *)
(* and a restart; with two STUN servers; with a TURN server.               *)
Config(v, t, k, q, r, f) ==
    [servers |-> v, turnconf |-> t, known |-> k, requests |-> q, restarts |-> r, fail |-> f]

I == INSTANCE IceAgent WITH
        a <- s, SrflxOf <- {r2}, Unknown <- {r3}, TxnMax <- 2, MaxRetransmits <- 0,
        Ports <- {1, 3}, Threshold <- 2, PredictCount <- 1, SprayCount <- 1,
        MaxCandidates <- 3, MaxPairs <- 4, MaxPermissions <- 1,
        Configs <- {Config(0, FALSE, <<r2>>, 1, 1, TRUE), Config(2, FALSE, <<r2>>, 0, 0, FALSE),
                    Config(0, TRUE, <<r1>>, 0, 0, FALSE)}
M == INSTANCE Stun WITH
        stun <- s, Align <- 2, Cookie <- 2, Txn <- 1, Cells <- {0, 3}, Keys <- {"k1", "k2"},
        AttrCap <- 16, MaxAttrs <- 2,
        turn <- s, Ips <- {1}, PortsT <- {1, 2}, Pad <- 2, MinChannel <- 4, MaxChannel <- 4,
        MaxChannels <- 2, MaxPermissions <- 1, Payloads <- {1}, Refuses <- TRUE,
        probe <- s, MappedPorts <- {1, 2, 3}, MaxFd <- 4,
        sdp <- s, SdpIps <- {"a"}, Ports <- {1}, MaxCands <- 1, MaxOut <- 9, MaxSent <- 2
P == INSTANCE Peer WITH
        pc <- s, Openers <- {1}, MaxChannels <- 2, MaxCreates <- 2, MaxSends <- 1,
        dc <- s, MaxDcChannels <- 2, MaxLabel <- 2, Sids <- {1}, MaxTold <- 3, MaxBuffered <- 1,
        dtls <- s, DtlsBackends <- {"openssl", "mbedtls"}, IoBufCap <- 2, MaxLost <- 1

wire == <<net, misled>>

Init ==
    \/ part = "peers" /\ P!PeerInit
    \/ /\ net = 0 /\ misled = FALSE
       /\ \/ part = "ice" /\ I!Init
          \/ part = "nat" /\ M!ProbeInit
          \/ part = "dtls" /\ P!DtlsInit
          \/ part = "channels" /\ P!DcInit
          \/ part = "turn" /\ M!TurnInit
          \/ part = "stun" /\ M!StunInit
          \/ part = "sdp" /\ M!SdpInit

Next ==
    /\ UNCHANGED part
    /\ \/ part = "peers" /\ P!PeerNext
       \/ part = "ice" /\ I!Next /\ UNCHANGED wire
       \/ part = "nat" /\ M!ProbeNext /\ UNCHANGED wire
       \/ part = "dtls" /\ P!DtlsNext /\ UNCHANGED wire
       \/ part = "channels" /\ P!DcNext /\ UNCHANGED wire
       \/ part = "turn" /\ M!TurnNext /\ UNCHANGED wire
       \/ part = "stun" /\ M!StunNext /\ UNCHANGED wire
       \/ part = "sdp" /\ M!SdpNext /\ UNCHANGED wire

Spec == Init /\ [][Next]_<<part, s, net, misled>>
-----------------------------------------------------------------------------
(* The agent reports Connected exactly while it has a nominated pair, and  *)
(* no change of state that the model of the peer connection does not       *)
(* expect of it.                                                           *)
AgentReports ==
    /\ [](part = "ice" => I!ConnectedNominated)
    /\ [][part = "ice" /\ ~s'.wild /\ s.state # s'.state => P!IceStep(s.state, s'.state)]_s

(* Gathering ends at most once, and only when everything it started has    *)
(* answered, failed or timed out, or by its own timer; gathering and       *)
(* checking are timed for as long as they last.                            *)
GatherEnds ==
    /\ [](part = "ice" => I!GatherEndsOnce /\ I!EndIsTimed)
    /\ [][part = "ice" => I!GatherEndsStep]_s

(* The NAT probe reports once, and what it says is what the answers show.  *)
ProbeVerdict == part = "nat" => M!ReportsOnce /\ M!VerdictWhole

(* Two connected peers agree: their DTLS roles oppose and each is sure of  *)
(* the other's certificate, a channel one holds open is in the other's     *)
(* table, and a message reaches the channel it was sent on, in order.      *)
PeersAgree ==
    /\ part = "peers" => P!RolesOpposite /\ P!OpenIsShared /\ P!OnItsChannel
    /\ part = "dtls" => P!DtlsSound
    /\ part = "channels" => P!ChannelsInOrder

(* What one end encodes the other end reads: STUN messages, session        *)
(* descriptions, and the data a TURN server relays.                        *)
CodedRight ==
    /\ part = "stun" => M!MessagesRight
    /\ part = "sdp" => M!SessionsAgree
    /\ part = "turn" => M!RelayedRight
=============================================================================
