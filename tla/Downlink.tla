------------------------------ MODULE Downlink ------------------------------
(***************************************************************************)
(* One gateway and one service at the byte level: the gateway's AUTH frame *)
(* is encoded by the client side, decoded and judged by the Hub; then a    *)
(* service's business frame is decoded, routed by the node id in its IM    *)
(* header, encoded again for the gateway, and described in the log.        *)
(***************************************************************************)
EXTENDS Wire

CONSTANTS
  Users, Passes,     (* strings, of any length, without a zero byte        *)
  Gids, Nids,        (* node ids include 0, which means none               *)
  ServiceNid,
  Cmds, Seqs, Bodies,
  ShortPayloads      (* payloads too short to hold an IM header            *)

ASSUME DownlinkAssumption ==
  /\ Users \cup Passes \subseteq Seq(Byte \ {0})
  /\ \A n \in Gids \cup Nids \cup Cmds \cup {ServiceNid} : IsWord(n)
  /\ \A v \in Seqs : v = <<v[1], v[2]>> /\ IsWord(v[1]) /\ IsWord(v[2])
  /\ Bodies \cup ShortPayloads \subseteq Seq(Byte)
  /\ \A body \in Bodies : IsWord(kHeaderSize + Len(body))
  /\ \A p \in ShortPayloads : Len(p) < kHeaderSize

VARIABLES
  stage,     (* how far the exchange is                                    *)
  cfg,       (* HubConfig: auth_user and auth_pass                         *)
  auth,      (* what the gateway authenticates with                        *)
  session,   (* the Hub's Session of the gateway: gid and nid              *)
  msg,       (* what the service sends: its arguments, and the payload     *)
  wire,      (* the bytes of the last frame                                *)
  meta       (* what was logged of the frame to the gateway                *)

downlinkVars == <<stage, cfg, auth, session, msg, wire, meta>>

DownlinkInit ==
  /\ stage = "connected"
  /\ cfg \in [user : Users, pass : Passes]
  /\ auth \in [gid : Gids, user : Users, pass : Passes, nid : Nids]
  /\ session = [gid |-> 0, nid |-> 0]
  /\ msg = << >>
  /\ wire = << >>
  /\ meta = NoMeta

GatewayAuth ==
  /\ stage = "connected"
  /\ wire' = EncodeAuthFrame(auth.gid, auth.user, auth.pass, auth.nid)
  /\ stage' = "auth"
  /\ UNCHANGED <<cfg, auth, session, msg, meta>>

\* HandleSystem, AUTH: the session is closed, or takes its names from the payload.
HubAuth ==
  /\ stage = "auth"
  /\ DecodesHeader(wire) /\ Type(wire) = kAuthReq /\ Flag(wire) = kFlagSys
  /\ LET p == Payload(wire) IN
     IF DecodesAuthPayload(p) /\ CredentialsMatch(cfg, p)
       THEN /\ session' = [gid |-> AuthGid(p), nid |-> AuthNid(p)]
            /\ wire' = EncodeFrame(kAuthAck, AuthNid(p), kFlagSys, << >>)
            /\ stage' = "authed"
       ELSE /\ stage' = "closed"
            /\ UNCHANGED <<session, wire>>
  /\ UNCHANGED <<cfg, auth, msg, meta>>

\* The service (external), which is another node, sends a frame.
ServiceSends(cmd, payload, dest, seq) ==
  /\ stage = "authed"
  /\ msg' = [cmd |-> cmd, dest |-> dest, seq |-> seq, payload |-> payload]
  /\ wire' = EncodeFrame(cmd, ServiceNid, kFlagExp, payload)
  /\ stage' = "sent"
  /\ UNCHANGED <<cfg, auth, session, meta>>

\* EnqueueInbound, BackendDownlinkHandler and AsyncSend: a node id of 0 is dropped,
\* and so is one that is not connected.
HubForwards ==
  /\ stage = "sent"
  /\ DecodesHeader(wire) /\ Flag(wire) = kFlagExp
  /\ LET dest_nid == ReadDestNid(Payload(wire))
         frame == EncodeFrame(Type(wire), dest_nid, kFlagExp, Payload(wire))
     IN IF dest_nid # 0 /\ dest_nid = session.nid
          THEN /\ wire' = frame
               /\ meta' = ParseRouteLogMeta(frame)
               /\ stage' = "delivered"
          ELSE /\ stage' = "dropped"
               /\ UNCHANGED <<wire, meta>>
  /\ UNCHANGED <<cfg, auth, session, msg>>

DownlinkNext ==
  \/ GatewayAuth \/ HubAuth
  \/ \E cmd \in Cmds : \E dest \in Nids, seq \in Seqs, body \in Bodies :
       ServiceSends(cmd, PackPayload(cmd, <<0, 1>>, dest, seq, body), dest, seq)
  \/ \E cmd \in Cmds, payload \in ShortPayloads : ServiceSends(cmd, payload, 0, <<0, 0>>)
  \/ HubForwards

DownlinkSpec == DownlinkInit /\ [][DownlinkNext]_downlinkVars

-----------------------------------------------------------------------------
\* The part of a string that fits a field of n bytes.
Cut(str, n) == SubSeq(str, 1, IF Len(str) < n THEN Len(str) ELSE n)

(***************************************************************************)
(* AUTH succeeds exactly when what of the client's user and password fits  *)
(* the fields is what the Hub is configured with, up to the last byte of a *)
(* field that is full and hence without a terminating zero; the session    *)
(* then has the client's ids.  (So a configured user or password that is   *)
(* longer than its field lets nobody in.)                                  *)
(***************************************************************************)
AuthExact ==
  /\ stage = "closed" =>
       Cut(auth.user, kAuthUserLen) # cfg.user \/ Cut(auth.pass, kAuthPassLen) # cfg.pass
  /\ stage \notin {"connected", "auth", "closed"} =>
       /\ Cut(auth.user, kAuthUserLen) = cfg.user
       /\ Cut(auth.pass, kAuthPassLen) = cfg.pass
       /\ session = [gid |-> auth.gid, nid |-> auth.nid]

(***************************************************************************)
(* A service's frame reaches the gateway exactly when its IM header names  *)
(* the node id the gateway has authenticated with, and then with the       *)
(* command, the sequence number and every byte of the payload it was sent  *)
(* with, under the gateway's node id: decoding and encoding again on the   *)
(* way through the Hub change nothing.                                     *)
(***************************************************************************)
DownlinkExact ==
  /\ stage = "dropped" => msg.dest = 0 \/ msg.dest # auth.nid
  /\ stage = "delivered" =>
       /\ msg.dest = auth.nid
       /\ DecodesHeader(wire) /\ Len(wire) = kWireHeaderSize + Length(wire)
       /\ Type(wire) = msg.cmd /\ Nid(wire) = auth.nid /\ Flag(wire) = kFlagExp
       /\ Payload(wire) = msg.payload /\ ReadSeq(Payload(wire)) = msg.seq

(***************************************************************************)
(* The log tells the truth: what ParseRouteLogMeta finds in the encoded    *)
(* frame is what the frame was sent with, so that the warning about a node *)
(* id that differs from the IM header's (LogAsyncSendEnqueue) never comes  *)
(* for a bridged frame.                                                    *)
(***************************************************************************)
LogAgrees ==
  stage = "delivered" =>
    meta = [wire_cmd |-> msg.cmd, wire_nid |-> msg.dest, im_dest_nid |-> msg.dest,
            im_seq |-> msg.seq]

=============================================================================
