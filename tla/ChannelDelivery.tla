--------------------------- MODULE ChannelDelivery ---------------------------
(***************************************************************************)
(* One notification channel and what is sent through it. The test of a     *)
(* channel and the sending of an alert are separate code for each of the   *)
(* seven types; the same service answers both. The test reads the row. An  *)
(* alert of a rule that names its channels reads the row as well, one of a *)
(* rule that names none a list of all channels, which Redis keeps a copy   *)
(* of; and the retries of an alert keep what was read at its beginning.    *)
(* The channel is edited by the API or by the page, which gets the secret  *)
(* only as a mask, one edit at a time.                                     *)
(*                                                                         *)
(* Texts are left out: what a service does with one is its mood. The       *)
(* default template that an alert finds, in a row or in a copy that no     *)
(* edit deletes, may be any. Notifier has several channels and their log.  *)
(***************************************************************************)
EXTENDS Naturals

CONSTANTS
  Kinds,    \* types of channel
  Attempts  \* notification_max_retries

ASSUME ChannelDeliveryAssumption ==
  /\ Kinds \subseteq {"webhook", "email", "dingtalk", "feishu", "wecom", "slack", "telegram"}
  /\ Attempts \in Nat \ {0}

VARIABLES
  kind,     \* the channel's type, which no edit changes
  setup,    \* its config in the row: [whole, address, secret]
  copy,     \* its config in the copied list: a singleton, {} without a copy
  editing,  \* is an edit committed and the copy not yet deleted?
  barred,   \* the addresses that a check of addresses refuses
  mood,     \* what the service does with a message
  tested,   \* has a test succeeded, and nothing changed since?
  using,    \* what the alert being sent has read: [config, words]
  sending   \* the alert: [pc, tries, sure, heard]

channelVars == <<kind, setup, copy, editing>>
deliveryVars == <<channelVars, barred, mood, tested, using, sending>>

Moods == {"accepts", "quiet", "refuses", "down"}   \* quiet: 2xx other than 200
Words == {"none", "good", "broken"}                \* the default template
Masked == {"email", "dingtalk", "feishu"}          \* types with a field that is masked
Checked == {"webhook", "slack"}                    \* types whose address is checked
Robots == {"dingtalk", "feishu", "wecom"}

Urls == IF kind \in Checked THEN {"own", "other"} ELSE {"own"}

\* Are the fields there that the type cannot do without, where do they point
\* to, and what is the secret?
Setups == [whole : BOOLEAN,
           address : Urls,
           secret : IF kind \in Masked THEN {"none", "right"} ELSE {"none"}]

NothingRead == [config |-> [whole |-> FALSE, address |-> "own", secret |-> "none"], words |-> "none"]
NotUnderway == [pc |-> "idle", tries |-> 0, sure |-> FALSE, heard |-> 0]

DeliveryInit ==
  /\ kind \in Kinds
  /\ setup \in Setups
  /\ copy = {} /\ editing = FALSE /\ tested = FALSE
  /\ barred \in SUBSET {a \in Urls : kind \in Checked}
  /\ mood \in Moods
  /\ using = NothingRead /\ sending = NotUnderway

-----------------------------------------------------------------------------
(* What comes of one message: the code its sender gets, "none" when it did *)
(* not try, "raised" for an exception; and whether the message was taken.  *)

Result(code, heard) == [code |-> code, heard |-> heard]
Unset == Result("none", 0)
Raised == Result("raised", 0)

\* The answer to a message may also get "lost".
ByHttp(a) ==
  CASE a = "accepts" -> Result("200", 1)
    [] a = "quiet"   -> Result("204", 1)
    [] a = "refuses" -> Result("400", 0)
    [] a = "down"    -> Raised
    [] a = "lost"    -> Result("raised", 1)

\* A robot says in the body of its answer what it thinks of the message.
ByRobot(a) ==
  CASE a \in {"accepts", "quiet"} -> Result("200", 1)
    [] a = "refuses" -> Result("200", 0)
    [] OTHER -> ByHttp(a)

BySmtp(a) ==
  CASE a \in {"accepts", "quiet"} -> Result("200", 1)
    [] a = "refuses" -> Raised
    [] OTHER -> ByHttp(a)

\* A service knows its secret and refuses what comes with the mask of it.
Signed(c, a) == IF c.secret = "mask" /\ a # "down" THEN "refuses" ELSE a

\* _validate_webhook_url.
Allowed(c) == c.address \notin barred

\* _render_template catches a name it does not know, but not a lone brace.
RenderFails(w) == w = "broken"

\* The handlers of _send_to_channel, for a config c and a template w.
SendWebhook(c, w, a) ==
  IF ~c.whole THEN Unset ELSE IF ~Allowed(c) \/ RenderFails(w) THEN Raised ELSE ByHttp(a)

SendEmail(c, w, a) ==
  IF ~c.whole THEN Unset ELSE IF RenderFails(w) THEN Raised ELSE BySmtp(Signed(c, a))

\* The prefix of the title is set only where there is no template.
SendDingtalk(c, w, a) ==
  IF ~c.whole THEN Unset ELSE IF w # "none" THEN Raised ELSE ByRobot(Signed(c, a))

SendFeishu(c, w, a) ==
  IF ~c.whole THEN Unset ELSE IF RenderFails(w) THEN Raised ELSE ByRobot(Signed(c, a))

SendWecom(c, w, a) ==
  IF ~c.whole THEN Unset ELSE IF RenderFails(w) THEN Raised ELSE ByRobot(a)

SendSlack(c, w, a) ==
  IF ~c.whole THEN Unset ELSE IF ~Allowed(c) \/ RenderFails(w) THEN Raised ELSE ByHttp(a)

SendTelegram(c, w, a) ==
  IF ~c.whole THEN Unset ELSE IF RenderFails(w) THEN Raised ELSE ByHttp(a)

Handler(c, w, a) ==
  CASE kind = "webhook" -> SendWebhook(c, w, a) [] kind = "email" -> SendEmail(c, w, a)
    [] kind = "dingtalk" -> SendDingtalk(c, w, a) [] kind = "feishu" -> SendFeishu(c, w, a)
    [] kind = "wecom" -> SendWecom(c, w, a) [] kind = "slack" -> SendSlack(c, w, a)
    [] kind = "telegram" -> SendTelegram(c, w, a)

\* Those of send_test_notification_to_channel. They need no template; an
\* exception is caught, and then, as without an address, the test has failed.
TestWebhook(c, a) == IF c.whole /\ Allowed(c) THEN ByHttp(a) ELSE Unset
TestEmail(c, a) == IF c.whole THEN BySmtp(Signed(c, a)) ELSE Unset
TestDingtalk(c, a) == IF c.whole THEN ByRobot(Signed(c, a)) ELSE Unset
TestFeishu(c, a) == IF c.whole THEN ByRobot(Signed(c, a)) ELSE Unset
TestWecom(c, a) == IF c.whole THEN ByRobot(a) ELSE Unset

\* Mutant: the address is not checked.
TestSlackUnchecked(c, a) == IF c.whole THEN ByHttp(a) ELSE Unset

TestSlack(c, a) == IF c.whole /\ Allowed(c) THEN ByHttp(a) ELSE Unset
TestTelegram(c, a) == IF c.whole THEN ByHttp(a) ELSE Unset

TestHandler(c, a) ==
  CASE kind = "webhook" -> TestWebhook(c, a) [] kind = "email" -> TestEmail(c, a)
    [] kind = "dingtalk" -> TestDingtalk(c, a) [] kind = "feishu" -> TestFeishu(c, a)
    [] kind = "wecom" -> TestWecom(c, a) [] kind = "slack" -> TestSlack(c, a)
    [] kind = "telegram" -> TestTelegram(c, a)

Succeeds(r) == r.code \in {"200", "204"}

-----------------------------------------------------------------------------
(* What changes the channel or the service.                                *)

\* A test of the old config says nothing of the new one.
Commit(config) ==
  /\ ~editing /\ editing' = TRUE
  /\ setup' = config /\ tested' = FALSE

\* create_channel and update_channel with a config of the caller's.
SaveConfig ==
  /\ \E s \in Setups \ {setup} : Commit(s)
  /\ UNCHANGED <<kind, copy, barred, mood, using, sending>>

\* The page demands the type's fields and sends the whole config, with the
\* secret typed in again or as list_channels masked it when the form opened.
SubmitForm(retyped) ==
  /\ retyped => kind \in Masked
  /\ \E a \in Urls,
        s \in IF retyped THEN {"right"} ELSE {"none"} \cup IF kind \in Masked THEN {"mask"} ELSE {} :
       Commit([whole |-> TRUE, address |-> a, secret |-> s])
  /\ UNCHANGED <<kind, copy, barred, mood, using, sending>>

\* Behind its COMMIT the edit deletes the copy.
ForgetCopy ==
  /\ editing /\ editing' = FALSE
  /\ copy' = {}
  /\ UNCHANGED <<kind, setup, barred, mood, tested, using, sending>>

CopyExpires ==
  /\ copy # {} /\ copy' = {}
  /\ UNCHANGED <<kind, setup, editing, barred, mood, tested, using, sending>>

\* The service, or what its name resolves to, changes.
ServiceChanges ==
  /\ \/ \E m \in Moods \ {mood} : mood' = m /\ barred' = barred
     \/ /\ kind \in Checked /\ mood' = mood
        /\ \E a \in Urls :
             barred' = IF a \in barred THEN barred \ {a} ELSE barred \cup {a}
  /\ tested' = FALSE /\ sending' = [sending EXCEPT !.sure = FALSE]
  /\ UNCHANGED <<channelVars, using>>

-----------------------------------------------------------------------------
\* POST /{id}/test.
TestChannel ==
  /\ tested' = Succeeds(TestHandler(setup, mood))
  /\ UNCHANGED <<channelVars, barred, mood, using, sending>>

\* A send with the config it has read. It is sure of its way if a test said so.
BeginSend(config) ==
  /\ \E w \in Words : using' = [config |-> config, words |-> w]
  /\ sending' = [pc |-> "sending", tries |-> 0, sure |-> tested /\ config = setup, heard |-> 0]

AtRest == sending.pc \notin {"sending", "copying"}

\* _get_channels_for_rule for a rule that names the channel.
SendChosen ==
  /\ AtRest /\ BeginSend(setup)
  /\ UNCHANGED <<channelVars, barred, mood, tested>>

\* For one that names none, _get_enabled_channels: from the copy, or else from
\* the rows, which are then copied.
SendByList ==
  /\ AtRest
  /\ \/ \E c \in copy : BeginSend(c)
     \/ /\ copy = {}
        /\ using' = [config |-> setup, words |-> "none"]
        /\ sending' = [NotUnderway EXCEPT !.pc = "copying"]
  /\ UNCHANGED <<channelVars, barred, mood, tested>>

\* Meanwhile an edit may have deleted the copy that this one puts in its place.
CopyList ==
  /\ sending.pc = "copying"
  /\ copy' = {using.config} /\ BeginSend(using.config)
  /\ UNCHANGED <<kind, setup, editing, barred, mood, tested>>

\* The loop of _send_to_channel; tries counts the attempts that failed.
After(s, r) ==
  [s EXCEPT !.heard = @ + r.heard,
            !.tries = IF Succeeds(r) THEN @ ELSE @ + 1,
            !.pc = IF Succeeds(r) THEN "sent" ELSE IF s.tries + 1 < Attempts THEN @ ELSE "failed"]

\* The retries keep the config and the template that were read.
Attempt(answer) ==
  /\ sending.pc = "sending"
  /\ sending' = After(sending, Handler(using.config, using.words, answer))
  /\ using' = IF sending'.pc = "sending" THEN using ELSE NothingRead
  /\ UNCHANGED <<channelVars, barred, mood, tested>>

TryAlert == Attempt(mood)

\* The message is taken and the answer does not arrive.
TryAlertInVain ==
  /\ mood \in {"accepts", "quiet"}
  /\ Attempt("lost")

DeliveryNext ==
  \/ SaveConfig \/ (\E retyped \in BOOLEAN : SubmitForm(retyped)) \/ ForgetCopy
  \/ CopyExpires \/ ServiceChanges
  \/ TestChannel \/ SendChosen \/ SendByList \/ CopyList \/ TryAlert \/ TryAlertInVain

DeliverySpec == DeliveryInit /\ [][DeliveryNext]_deliveryVars

(***************************************************************************)
(* A test that succeeds tells how alerts fare: an alert whose send began   *)
(* after it with the config of the row, and during which the service did   *)
(* not change, is recorded as sent after its first attempt and has arrived *)
(* once, unless the service is a robot that refuses, whatever edits commit *)
(* in the meantime. Two things break this and are named. One is the        *)
(* templates: one whose body cannot be formatted, and any for DingTalk.    *)
(* The other is a config that is not the row's any more, and it reaches    *)
(* only alerts of rules that name no channels: after an edit they may take *)
(* the old copy, or one that a send stored behind the edit's deletion.     *)
(***************************************************************************)
Wrecked(w) == w = "broken" \/ (kind = "dingtalk" /\ w = "good")

Arrived(s) == s.pc = "sent" /\ s.tries = 0 /\ (s.heard = 1 \/ kind \in Robots)

DeliveredAsTested ==
  [][ TryAlert /\ sending.sure /\ sending.tries = 0 /\ ~Wrecked(using.words)
        => Arrived(sending') ]_deliveryVars

\* "If you receive this message, the DingTalk notification is configured
\* correctly": after a test that succeeded, with a template that can be
\* formatted, an attempt at an alert does not fail.
TestedIsDelivered ==
  [][ TryAlert /\ sending.sure /\ sending'.pc = "failed"
        => using.words = "broken" ]_deliveryVars
=============================================================================
