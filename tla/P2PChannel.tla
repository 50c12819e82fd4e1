----------------------------- MODULE P2PChannel -----------------------------
(***************************************************************************)
(* The P2P mode of a topic from both ends: the admission and the relay of  *)
(* the ws worker (P2PRoom) and the connections that the views build        *)
(* through them (P2PMesh, which sees of the worker what its clients see).  *)
(* A behaviour is one of the room, when the cast is NoCast, or of one cast *)
(* of the mesh.                                                            *)
(***************************************************************************)
EXTENDS P2PRoom, Naturals

CONSTANTS Casts, Overflows, NoCast

ASSUME P2PChannelAssumption ==
  /\ Casts \subseteq [seats : Nat \ {0}, mounts : [Users -> Nat], drops : SUBSET Users]
  /\ NoCast \in Casts /\ Overflows \in BOOLEAN

VARIABLES cast, members, tab, rtc, made, peerConns, dataChannels, pending, wire, badge, told

Mesh == INSTANCE P2PMesh WITH
  Peers <- Users, conn <- peerConns, chan <- dataChannels, mode <- badge

meshVars == <<cast, members, tab, rtc, made, peerConns, dataChannels, pending, wire, badge, told>>

ChannelInit == Init /\ Mesh!MeshInit

ChannelNext ==
  \/ cast = NoCast /\ Next /\ UNCHANGED meshVars
  \/ cast # NoCast /\ Mesh!MeshNext /\ UNCHANGED vars

ChannelSpec == ChannelInit /\ [][ChannelNext]_<<vars, meshVars>>

MeshForms == Mesh!MeshForms
=============================================================================
