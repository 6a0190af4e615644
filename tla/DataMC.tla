------------------------------- MODULE DataMC -------------------------------
(***************************************************************************)
(* What TLC instantiates for the client's data: the queue of messages      *)
(* (Outbox), what a message and its reply say (Messages), the buffers      *)
(* their text is written to (Buffers), and the channels with their         *)
(* subscriptions (Channels).  They share no state, so that a behaviour     *)
(* need only be one of the four.                                           *)
(***************************************************************************)
EXTENDS Outbox, Messages, Buffers, Channels

MCInit == Init /\ NoMessage /\ NoBuffers /\ ChannelsInit

MCNext ==
  \/ NoMessage /\ NoBuffers /\ ChannelsInit /\ Next /\ UNCHANGED <<messages, buffers, registry>>
  \/ Init /\ NoBuffers /\ ChannelsInit /\ MessageStep /\ UNCHANGED <<vars, buffers, registry>>
  \/ Init /\ NoMessage /\ ChannelsInit /\ BufferCall /\ UNCHANGED <<vars, messages, registry>>
  \/ Init /\ NoMessage /\ NoBuffers /\ ChannelsStep /\ UNCHANGED <<vars, messages, buffers>>

MCSpec == MCInit /\ [][MCNext]_<<vars, messages, buffers, registry>>
=============================================================================
