------------------------------- MODULE Drafting -------------------------------
(* What a customer's data goes through on its way into two prompts and out   *)
(* of two answers (app/nodes.py, app/pii.py, app/safety.py).  A text is the  *)
(* set of marks that matter about it: a raw name or address in it, a digit   *)
(* run, an unsanctioned link or secret, a placeholder, braces that came with *)
(* a field of the record, a signature.  The model is arbitrary: it may       *)
(* repeat any mark of its prompt and invent any that is not the customer's   *)
(* own data.                                                                 *)
EXTENDS Integers, FiniteSets

VARIABLES
  customer,    \* the kind of name, address and plan on the record
  business,    \* the kind of business name configured
  stage,       \* the node the graph has reached
  prompts,     \* what was put in the prompts so far
  answer,      \* the raw text the last call returned
  diagnosis, message,          \* the two texts of the result
  fellBack                     \* the nodes that used a committed template

dvars == <<customer, business, stage, prompts, answer, diagnosis, message, fellBack>>

\* A name may be missing, plain, plain with a spaced-out digit run, shaped like
\* {{X}}, or carry a link, a secret or seven digits in a row; an address
\* well-formed, well-formed with the name inside it, or not.  An address has no
\* spaces, so neither has a name inside it.
CustomerKinds ==
  {c \in [name  : {"missing", "plain", "spaced", "braced", "hostile"},
          email : {"missing", "plain", "named", "malformed"},
          plan  : {"missing", "plain", "braced", "hostile"}] :
     c.email = "named" => c.name \in {"plain", "braced"}}

\* Not set, the merchant's own, the same as the customer's, like {{X}}, or with a link.
Businesses == {"unset", "own", "recipient", "braced", "hostile"}

Unsafe == {"link", "secret"}
\* What reads as a placeholder: one of the program's, one of nobody's, and braces
\* that are a field's own.
Dangling == {"name_ph", "email_ph", "stray_ph"}
Placeholders == Dangling \cup {"braces"}
Invented == Unsafe \cup {"card", "phone", "stray_ph"}

NameMarks(c) ==
  CASE c.name = "missing" -> {}
    [] c.name = "plain"   -> {"name"}
    [] c.name = "spaced"  -> {"name", "phone"}
    [] c.name = "braced"  -> {"name", "braces"}
    [] c.name = "hostile" -> {"name", "link"}
EmailMarks(c) ==
  CASE c.email = "missing" -> {}
    [] c.email \in {"plain", "named"} -> {"email"}
    [] c.email = "malformed" -> {"email", "link"}
PlanMarks(c) ==
  CASE c.plan = "hostile" -> {"link", "phone"}
    [] c.plan = "braced"  -> {"braces"}
    [] OTHER              -> {}

\* find_foreign_urls: a link to a host that is not allowed; find_secrets.
ForeignUrls(text) == text \cap {"link"}
Secrets(text) == text \cap {"secret"}

\* message_violations.
Violates(text) == ForeignUrls(text) \cup Secrets(text) # {}

\* pii.name_is_safe; spaced-out digits pass it, and so do braces.
NameIsSafe(c) == c.name \in {"plain", "spaced", "braced"}

\* nodes._safe_field: also no spaced-out digits; otherwise the fallback word.
SafeName(c) == IF c.name \in {"plain", "braced"} THEN NameMarks(c) ELSE {}

\* _gate_free_text: the plan, of the event and of the record, the same way.
SafePlan(c) == IF c.plan \in {"plain", "braced"} THEN PlanMarks(c) ELSE {}

\* _safe_free_text: a card becomes {{CARD}}, which reads as a placeholder;
\* every other long digit run becomes [redacted].
SafeFreeText(text) ==
  (text \ {"card", "phone"}) \cup (IF "card" \in text THEN {"stray_ph"} ELSE {})

WellFormed(c) == c.email \in {"plain", "named"}

\* mask_structured_pii: the placeholder and what it turns back into.
MaskedFields(c) ==
  {"name_ph"} \cup (IF c.email = "missing" THEN {} ELSE {"email_ph"}) \cup SafePlan(c)

Restores(c, ph) ==
  CASE ph = "name_ph"  -> IF NameIsSafe(c) THEN NameMarks(c) ELSE {}
    [] ph = "email_ph" -> IF WellFormed(c) THEN EmailMarks(c) ELSE {}

\* rehydrate replaces the placeholders the mapping knows.
Mapped(c) == {"name_ph"} \cup (IF c.email = "missing" THEN {} ELSE {"email_ph"})
Rehydrate(text, c) ==
  (text \ Mapped(c)) \cup UNION {Restores(c, ph) : ph \in text \cap Mapped(c)}

\* remask_text replaces literally, the name first: a name goes only where it
\* stands whole, and of an address around it the rest stays.
Remask(text, c) ==
  LET named  == NameIsSafe(c) /\ NameMarks(c) \subseteq text
      mailed == WellFormed(c) /\ "email" \in text
      around == mailed /\ c.email = "named"
      left == (IF named THEN text \ NameMarks(c) ELSE text)
                \ (IF mailed THEN {"email"} ELSE {})
  IN left \cup (IF named \/ around THEN {"name_ph"} ELSE {})
          \cup (IF around THEN {"email_rest"} ELSE IF mailed THEN {"email_ph"} ELSE {})

\* The scrub before the re-masking: a name with digits is no longer whole.
ForSecondPromptScrubbedFirst(text, c) == Remask(SafeFreeText(text), c)

\* draft_message: the diagnosis on its way into the second prompt.
ForSecondPrompt(text, c) == SafeFreeText(Remask(text, c))

\* business_name, given a recipient to compare with: never a link, and not
\* the customer's own name.  An unset one is the neutral default.
Signature(recipientKnown) ==
  CASE business = "own" -> {"signed"}
    [] business = "braced" -> {"signed", "braces"}
    [] business = "recipient" /\ ~recipientKnown ->
         {"signed", "signed_as_recipient"} \cup (NameMarks(customer) \cap {"braces"})
    [] OTHER -> {}

\* The template engine renders the name it reads out of the prompt, which is
\* the placeholder.
TemplateEngine(c) == {"name_ph"} \cup SafePlan(c)

\* A message it signs with business_name of that placeholder, so the name it
\* compares the business with is never the customer's.
SignedTemplateEngine(c) == TemplateEngine(c) \cup Signature(FALSE)

\* _safe_template_diagnosis and _safe_template_message: the committed copy,
\* with the fields through _safe_field and that name as the recipient.
SafeTemplate(c) == SafeName(c) \cup SafePlan(c)
SignedSafeTemplate(c) == SafeTemplate(c) \cup Signature(SafeName(c) # {})

\* _guard_rehydrate_recheck: guards, rehydration, leftovers, guards again.
GuardRehydrateRecheck(raw, c) ==
  LET hydrated == Rehydrate(raw, c)
  IN [failed |-> Violates(raw) \/ hydrated \cap Placeholders # {} \/ Violates(hydrated),
      text |-> hydrated]

DInit ==
  /\ customer \in CustomerKinds /\ business \in Businesses
  /\ business = "recipient" => NameIsSafe(customer)
  /\ stage = "retrieve_context"
  /\ prompts = {} /\ answer = {} /\ diagnosis = {} /\ message = {} /\ fellBack = {}

RetrieveContext ==
  /\ stage = "retrieve_context"
  /\ stage' = "ask_diagnosis"
  /\ UNCHANGED <<customer, business, prompts, answer, diagnosis, message, fellBack>>

FirstPrompt == MaskedFields(customer)
SecondPrompt ==
  (MaskedFields(customer) \ {"email_ph"})
    \cup ForSecondPrompt(diagnosis, customer) \cup Signature(customer.name # "missing")

\* What get_llm hands back may answer: committed copy, or any text of a model.
Answers(committed, prompt) == {committed} \cup SUBSET (prompt \cup Invented)

AskDiagnosis ==
  /\ stage = "ask_diagnosis"
  /\ prompts' = FirstPrompt
  /\ \E text \in Answers(TemplateEngine(customer), FirstPrompt) : answer' = SafeFreeText(text)
  /\ stage' = "guard_diagnosis"
  /\ UNCHANGED <<customer, business, diagnosis, message, fellBack>>

GuardDiagnosis ==
  /\ stage = "guard_diagnosis"
  /\ LET g == GuardRehydrateRecheck(answer, customer)
     IN /\ diagnosis' = IF g.failed THEN SafeTemplate(customer) ELSE g.text
        /\ fellBack' = IF g.failed THEN {"diagnosis"} ELSE {}
  /\ answer' = {} /\ stage' = "ask_message"
  /\ UNCHANGED <<customer, business, prompts, message>>

AskMessage ==
  /\ stage = "ask_message"
  /\ prompts' = prompts \cup SecondPrompt
  /\ answer' \in Answers(SignedTemplateEngine(customer), SecondPrompt)
  /\ stage' = "guard_message"
  /\ UNCHANGED <<customer, business, diagnosis, message, fellBack>>

GuardMessage ==
  /\ stage = "guard_message"
  /\ LET g == GuardRehydrateRecheck(answer, customer)
     IN /\ message' = IF g.failed THEN SignedSafeTemplate(customer) ELSE g.text
        /\ fellBack' = IF g.failed THEN fellBack \cup {"message"} ELSE fellBack
  /\ answer' = {} /\ stage' = "done"
  /\ UNCHANGED <<customer, business, prompts, diagnosis>>

DNext == RetrieveContext \/ AskDiagnosis \/ GuardDiagnosis \/ AskMessage \/ GuardMessage

DSpec == DInit /\ [][DNext]_dvars

-----------------------------------------------------------------------------
\* No prompt ever holds the customer's name, address, a card, a phone-shaped
\* number, or a link from the record: the diagnosis is hydrated for the caller
\* and comes back into the second prompt.  Of an address, what is left around the
\* name in it may be there, if the first answer quoted it.
PromptsCarryNoPii ==
  /\ prompts \cap ({"name", "email", "card", "phone"} \cup Unsafe) = {}
  /\ "email_rest" \in prompts => customer.email = "named" /\ "email" \in diagnosis

\* What leaves the graph has no unsanctioned link, no secret and no placeholder
\* of the program or the model, whatever the model wrote and whatever the record
\* holds.  Braces are a field's own, and only the committed copy brings them: a
\* model's text that repeats them is dropped for it.
DeliveredIsClean ==
  /\ diagnosis \cap (Unsafe \cup Dangling) = {} /\ message \cap (Unsafe \cup Dangling) = {}
  /\ "braces" \in diagnosis =>
       "diagnosis" \in fellBack /\ "braced" \in {customer.name, customer.plan}
  /\ "braces" \in message =>
       "message" \in fellBack /\ "braced" \in {customer.name, customer.plan, business}

\* What goes into a prompt and what comes out of the graph, together.
TextsAreClean == PromptsCarryNoPii /\ DeliveredIsClean
===============================================================================
