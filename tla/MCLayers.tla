------------------------------- MODULE MCLayers -------------------------------
(***************************************************************************)
(* What stands on the connections and loops of the library: the logger,    *)
(* the codecs and servers, the acceptor and the timers.  They share no     *)
(* state, so a behavior of this module is one of the layer that is chosen  *)
(* at the beginning; the others stay in their initial state.               *)
(***************************************************************************)
EXTENDS AsyncLogger, HTTPServer, ProtobufCodec, RpcChannel, MemDB, SubPub, Acceptor,
        Timer, TLC

VARIABLE layer

MCSizeOf(r) == IF r = 2 THEN 2 ELSE 1

Get(path, close) == [method |-> "GET", path |-> path, close |-> close]
MCScript == "a" :> <<Get("/", FALSE), Get("/x", TRUE)>>
            @@ "b" :> <<[method |-> "POST", path |-> "/", close |-> FALSE]>>
MCPeerLoop == [c \in {"a", "b"} |-> c]
MCRules == {<<"/", "GET">>}

MCNameSize == "Query" :> 6 @@ "Empty" :> 6 @@ "Other" :> 6
MCPayloadSize == "plain" :> 1 @@ "malformed" :> 1 @@ "tagged" :> 4 @@ "raw" :> 2
MCCodec == {[lite |-> FALSE, byValue |-> FALSE], [lite |-> TRUE, byValue |-> FALSE],
            [lite |-> TRUE, byValue |-> TRUE]}

MCCalledMethod == <<"Solve", "Solve", "Other">>
MCParses(id) == TRUE

MCCommands == "a" :> << <<"SET", "k", "v">>, <<"GET", "k">>, <<"GET">> >>
              @@ "b" :> << <<"DEL", "k", "j">>, <<"SET", "k", "w">>, <<"SET", "k", "">> >>

MCLoopOf == "a" :> 1 @@ "b" :> 2
MCLine == {[do |-> d, topic |-> "foo"] : d \in {"sub", "unsub", "pub", "junk", "short"}}
          \cup {[do |-> "sub", topic |-> "bar"]}

AllVars == <<loggerVars, httpVars, codecVars, rpcVars, memVars, subVars, acceptVars,
             timerVars, layer>>

\* The frames of the codec are chosen at the beginning as well.
FirstCodec == CHOOSE c \in Codec : TRUE
FirstWire == <<CHOOSE f \in MessageOf(FirstCodec) : TRUE>>

Init ==
  /\ layer \in {"logger", "http", "protobuf", "rpc", "memdb", "subpub", "acceptor", "timer"}
  /\ LoggerInit /\ HTTPInit /\ RpcInit /\ MemInit /\ SubInit /\ AcceptInit /\ TimerInit
  /\ CodecInit /\ (layer # "protobuf" => <<codec, wire>> = <<FirstCodec, FirstWire>>)

StepLogger == /\ layer = "logger" /\ LoggerNext
              /\ UNCHANGED <<httpVars, codecVars, rpcVars, memVars, subVars, acceptVars,
                             timerVars, layer>>
StepHTTP == /\ layer = "http" /\ HTTPNext
            /\ UNCHANGED <<loggerVars, codecVars, rpcVars, memVars, subVars, acceptVars,
                           timerVars, layer>>
StepCodec == /\ layer = "protobuf" /\ CodecNext
             /\ UNCHANGED <<loggerVars, httpVars, rpcVars, memVars, subVars, acceptVars,
                            timerVars, layer>>
StepRpc == /\ layer = "rpc" /\ RpcNext
           /\ UNCHANGED <<loggerVars, httpVars, codecVars, memVars, subVars, acceptVars,
                          timerVars, layer>>
StepMem == /\ layer = "memdb" /\ MemNext
           /\ UNCHANGED <<loggerVars, httpVars, codecVars, rpcVars, subVars, acceptVars,
                          timerVars, layer>>
StepSub == /\ layer = "subpub" /\ SubNext
           /\ UNCHANGED <<loggerVars, httpVars, codecVars, rpcVars, memVars, acceptVars,
                          timerVars, layer>>
StepAccept == /\ layer = "acceptor" /\ AcceptNext
              /\ UNCHANGED <<loggerVars, httpVars, codecVars, rpcVars, memVars, subVars,
                             timerVars, layer>>
StepTimer == /\ layer = "timer" /\ TimerNext
             /\ UNCHANGED <<loggerVars, httpVars, codecVars, rpcVars, memVars, subVars,
                            acceptVars, layer>>

Next == \/ StepLogger \/ StepHTTP \/ StepCodec \/ StepRpc \/ StepMem \/ StepSub
        \/ StepAccept \/ StepTimer

\* Of the layers that are not chosen no fair action is enabled.
Spec == Init /\ [][Next]_AllVars /\ LoggerFairness /\ RpcFairness

\* The variables of every layer have their types.
LayersTypeOK == /\ LoggerTypeOK /\ HTTPTypeOK /\ CodecTypeOK /\ RpcTypeOK /\ MemTypeOK
                /\ SubTypeOK /\ AcceptTypeOK /\ TimerTypeOK
==============================================================================
