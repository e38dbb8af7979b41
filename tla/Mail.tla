-------------------------------- MODULE Mail --------------------------------
(***************************************************************************)
(* One delivery by an email output: EmailProcessor.Deliver of              *)
(* internal/processors/output/email.go and the SMTP sender of              *)
(* internal/outputs/email/smtp, which may repeat a dialogue without        *)
(* authentication.  A dialogue with the server is a step.  Module Digest   *)
(* makes the deliveries of its runs with these actions.                    *)
(***************************************************************************)
EXTENDS Naturals, Sequences

CONSTANT Caller

VARIABLES
  cancelled, \* the context is done
  mail,      \* "idle", "login" or "open" before a dialogue, "sent", "failed"
  wire       \* history: the dialogues of this delivery

\* An output and its sender.  user: there are credentials; from, to: there is
\* an address that can be parsed; host: mailpit or this machine, or any other.
Mailer == [user : BOOLEAN, from : BOOLEAN, to : BOOLEAN, host : {"local", "remote"},
           smtps : BOOLEAN,
           tls : {"auto", "disabled", "starttls", "implicit", "garbled"}]

\* resolveTLSMode; smtps is port 465.
TLSMode(m) ==
  IF m.tls # "auto" THEN m.tls ELSE IF m.smtps THEN "implicit" ELSE "starttls"

\* What a dialogue comes to.  "late": the server has taken the message, and the
\* end of the dialogue fails; "noauth": it knows no AUTH, which shows before
\* the message is sent.
Dialogue == [login : BOOLEAN, mode : {"disabled", "starttls", "implicit"},
             end : {"taken", "late", "refused", "noauth"}]
Taken(d) == d.end \in {"taken", "late"}

To(c, s) == mail' = [mail EXCEPT ![c] = s]

\* The template is rendered and the message put together; without a sender's
\* address that of the credentials is taken.
Compose(c, m) ==
  /\ mail[c] = "idle"
  /\ \/ /\ (m.from \/ m.user) /\ m.to
        /\ To(c, IF m.user THEN "login" ELSE "open")
     \/ To(c, "failed")
  /\ UNCHANGED <<cancelled, wire>>

\* Any failure is taken for a server without AUTH.
WrongToleratesNoAuth(m, d) == d.login /\ m.host = "local"

\* isAuthUnsupported and isLocalDevSMTPHost
ToleratesNoAuth(m, d) == d.login /\ d.end = "noauth" /\ m.host = "local"

\* The dialogue goes on although the context is done.
WrongDialogues(c, m) ==
  {d \in [login : {mail[c] = "login"}, mode : {TLSMode(m)},
          end : {"taken", "late", "refused", "noauth"}] : d.end = "noauth" => d.login}

\* What the server makes of a dialogue; there is none once the context is done.
Dialogues(c, m) ==
  {d \in [login : {mail[c] = "login"}, mode : {TLSMode(m)},
          end : {"taken", "late", "refused", "noauth"}] :
     /\ d.end = "noauth" => d.login
     /\ cancelled => d.end = "refused"}

\* DialAndSendWithContext, and the second try without AUTH.
Dial(c, m) ==
  /\ mail[c] \in {"login", "open"}
  /\ \/ /\ m.tls = "garbled"
        /\ To(c, "failed") /\ UNCHANGED wire
     \/ /\ m.tls # "garbled"
        /\ \E d \in Dialogues(c, m) :
             /\ wire' = [wire EXCEPT ![c] = Append(@, d)]
             /\ To(c, IF d.end = "taken" THEN "sent"
                      ELSE IF ToleratesNoAuth(m, d) THEN "open" ELSE "failed")
  /\ UNCHANGED cancelled

\* Deliver returns.
Close(c) ==
  /\ To(c, "idle")
  /\ wire' = [wire EXCEPT ![c] = <<>>]

(***************************************************************************)
(* A delivery is careful: the server takes the message at most once, over  *)
(* both tries; credentials are left out only towards this machine; and the *)
(* message goes in the clear only if TLS was switched off.                 *)
(***************************************************************************)
Careful(c, m) ==
  /\ \A i, j \in DOMAIN wire[c] : i < j => ~Taken(wire[c][i])
  /\ \A i \in DOMAIN wire[c] :
       /\ ~wire[c][i].login => ~m.user \/ m.host = "local"
       /\ wire[c][i].mode = "disabled" => m.tls = "disabled"
  /\ mail[c] = "sent" => Taken(wire[c][Len(wire[c])])
=============================================================================
