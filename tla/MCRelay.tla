------------------------------ MODULE MCRelay ------------------------------
(***************************************************************************)
(* Shapes of answers for model checking.  Close(1) stands for any token    *)
(* of the conversation.                                                    *)
(***************************************************************************)
EXTENDS Relay

MCTypeable == <<{"alice"}, {"bob"}>>

Ended(events) == [events |-> events, unended |-> FALSE]
Unended(events) == [events |-> events, unended |-> TRUE]

MCShapes ==
  << { Ended(<<Delta(<<Open, Close(1)>>)>>) },
     { \* a token cut in two, with a keep-alive between
       Ended(<<Delta(<<Word, Open>>), PingEvent, Delta(<<Close(1)>>)>>),
       \* a token, and the beginning of another that its block never finishes
       Ended(<<Delta(<<Open, Close(1), Open>>), StopEvent>>),
       \* the same where the stream ends, with its last event or within it
       Ended(<<Delta(<<Open>>)>>), Unended(<<Delta(<<Open>>)>>),
       Unended(<<Delta(<<Open>>), PingEvent>>) } >>
=============================================================================
