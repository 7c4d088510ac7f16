---------------------------- MODULE CallLifecycle ----------------------------
(***************************************************************************)
(* What the state machine of a call promises to the GUI and to the other   *)
(* party: which states follow one another, and what it tells whom on the   *)
(* way.  No event queue, no dialogs, no transactions, no other party.      *)
(*                                                                         *)
(* out is everything that left the machine, in order.  "CALL_FAILED"       *)
(* stands for the user event of a call whose account is unusable.          *)
(***************************************************************************)
EXTENDS Naturals, Sequences

VARIABLES
  st,    (* a state of statemachine.c, or "ABORTED": stopped by an error  *)
         (* or a shutdown                                                 *)
  out

vars == <<st, out>>

Init == st = "INITIAL" /\ out = <<>>

\* A transition with its outputs, in the order in which they leave.
Transition(from, outs, to) ==
  /\ st = from
  /\ st' = to
  /\ out' = out \o outs

MakeCall      == Transition("INITIAL", <<>>, "CHECKING")
AccountError  == Transition("CHECKING", <<"CALL_FAILED">>, "TERMINATING")
AccountOK     == Transition("CHECKING", <<"INVITE">>, "INVITING")
Provisional   == \E s \in {"TRYING", "RINGING"} :
                   Transition("INVITING", <<s>>, "INVITING")
Answered      == Transition("INVITING", <<"ACK", "ACCEPTED">>, "CONNECTED")
Unsuccessful  == \E s \in {"DECLINED", "UNREACHABLE"} :
                   Transition("INVITING", <<s>>, "TERMINATING")
GiveUp        == \E outs \in {<<"CANCEL">>, <<>>} :
                   Transition("INVITING", outs, "TERMINATING")

Invited       == Transition("INITIAL", <<"INCOMING", "180">>, "RINGING")
Accept        == Transition("RINGING", <<"200">>, "CONNECTING")
AcceptAgain   == Transition("CONNECTING", <<"200">>, "CONNECTING")
Acknowledged  == Transition("CONNECTING", <<"ACCEPTED">>, "CONNECTED")
Decline       == \E s \in {"RINGING", "CONNECTING"} :
                   Transition(s, <<"DECLINE">>, "TERMINATING")
Cancelled     == \E s \in {"RINGING", "CONNECTING"} :
                   Transition(s, <<"CANCELLED">>, "TERMINATING")

HangUp        == Transition("CONNECTED", <<"BYE">>, "TERMINATING")
RemoteHangUp  == Transition("CONNECTED", <<>>, "TERMINATING")
Terminate     == Transition("TERMINATING", <<"TERMINATED">>, "FINAL")

\* An error or a shutdown ends the call where it is.  Of two outputs that
\* belong together the first may have left already.
Abort ==
  /\ st \notin {"FINAL", "ABORTED"}
  /\ st' = "ABORTED"
  /\ \/ out' = out
     \/ st = "INITIAL" /\ out' = Append(out, "INCOMING")
     \/ st = "INVITING" /\ out' = Append(out, "ACK")

Next ==
  \/ MakeCall \/ AccountError \/ AccountOK
  \/ Provisional \/ Answered \/ Unsuccessful \/ GiveUp
  \/ Invited \/ Accept \/ AcceptAgain \/ Acknowledged \/ Decline \/ Cancelled
  \/ HangUp \/ RemoteHangUp
  \/ Terminate \/ Abort

Spec == Init /\ [][Next]_vars

-----------------------------------------------------------------------------
GuiOutput == {"INCOMING", "TRYING", "RINGING", "ACCEPTED", "DECLINED",
              "CANCELLED", "UNREACHABLE", "CALL_FAILED", "TERMINATED"}
Goodbye   == {"CANCEL", "DECLINE", "BYE"}
SipOutput == {"INVITE", "ACK", "180", "200"} \cup Goodbye
Output    == GuiOutput \cup SipOutput

\* How far a call has come when the GUI is told x.  A call is accepted or
\* fails, never both.
Stage(x) == CASE x = "INCOMING"              -> 0
              [] x \in {"TRYING", "RINGING"} -> 1
              [] x = "TERMINATED"            -> 3
              [] OTHER                       -> 2

\* What the GUI may be told after x, and what the SIP stack after x.
MayFollow(x, y) ==
  /\ x \in GuiOutput /\ y \in GuiOutput
       => Stage(x) < Stage(y) \/ (Stage(x) = 1 /\ Stage(y) = 1)
  /\ x \in Goodbye => y \notin SipOutput

\* The GUI sees a call advance and never go back: no ringing after it was
\* accepted, one outcome, one TERMINATED and nothing after it (GuiStub.java
\* forgets the call then).  The SIP stack is asked to end a call at most once,
\* and for nothing afterwards.
Orderly == \A i, j \in DOMAIN out : i < j => MayFollow(out[i], out[j])
=============================================================================
