----------------------------- MODULE Providers -----------------------------
(***************************************************************************)
(* What the code makes of an LLM service's reply: the four providers       *)
(* (ai/providers), the response parser and the hallucination check of the  *)
(* orchestrator, as operators over the kinds of replies a service gives.   *)
(*                                                                         *)
(* A text is told apart by its form and by what the hallucination check    *)
(* looks for: whether it claims a dollar amount and holds a qualifier.     *)
(***************************************************************************)
EXTENDS Sequences

Supported == {"groq", "openai", "gemini", "ollama"}

\* A summary as bare JSON, as JSON in a code fence, embedded in prose, or "braced":
\* next to other braces (prose with a placeholder, a second object); JSON of
\* another shape (a list, a missing field); no JSON at all.
SummaryForms == {"json", "fenced", "embedded", "braced"}
OtherForms == {"list", "partial", "prose", "empty"}

\* The token counts next to the text: numbers (or no "usage" at all), a usage
\* that is null, or one whose counts are null.
Usages == {"counted", "null", "uncounted"}

Text(form, amount, qualifier, usage) ==
    [kind |-> "text", form |-> form, amount |-> amount, qualifier |-> qualifier,
     usage |-> usage]

NoText(kind) ==
    [kind |-> kind, form |-> "empty", amount |-> FALSE, qualifier |-> FALSE,
     usage |-> "counted"]

\* Null is a text field that is null, "absent" an answer without the field;
\* "timeout" is the client's own; "stall" an answer that trickles in past it;
\* "broken" a lost connection or a body that is no JSON.
Null == NoText("null")

Replies ==
    {Text(f, a, q, u) : f \in SummaryForms, a \in BOOLEAN, q \in BOOLEAN, u \in Usages}
    \cup {Text(f, FALSE, FALSE, u) : f \in OtherForms, u \in Usages}
    \cup {NoText(k) : k \in {"null", "absent", "timeout", "status", "broken", "stall"}}

-----------------------------------------------------------------------------
(* generate of each provider: an LLMResponse or an exception               *)

Raises(exception) ==
    [raised |-> exception, success |-> FALSE, rawText |-> NoText("text")]

Responds(text) == [raised |-> "nothing", success |-> TRUE, rawText |-> text]

\* A missing key of data[...][...] is an error, a null text is not; but reading a
\* null usage, or adding up null counts for the log line, is, and loses the text.
GroqGenerate(reply) ==
    IF reply.kind = "timeout" THEN Raises("LLMTimeoutError")
    ELSE IF reply.kind \in {"text", "null"} /\ reply.usage = "counted"
         THEN Responds(reply)
    ELSE Raises("LLMProviderError")

\* Reads no token counts.
GeminiGenerate(reply) ==
    IF reply.kind = "timeout" THEN Raises("LLMTimeoutError")
    ELSE IF reply.kind \in {"text", "null"} THEN Responds(reply)
    ELSE Raises("LLMProviderError")

\* The SDK's message has no content where the answer has none.  A null usage is
\* skipped; null counts fail in the cost estimate, outside the try.
OpenAIGenerate(reply) ==
    IF reply.kind = "timeout" THEN Raises("LLMTimeoutError")
    ELSE IF reply.kind \in {"status", "broken"} THEN Raises("LLMProviderError")
    ELSE IF reply.usage = "uncounted" THEN Raises("TypeError")
    ELSE IF reply.kind = "text" THEN Responds(reply)
    ELSE Responds(Null)

\* data.get("response", ""); the counts are passed on as they are.
OllamaGenerate(reply) ==
    IF reply.kind = "timeout" THEN Raises("LLMTimeoutError")
    ELSE IF reply.kind \in {"status", "broken"} THEN Raises("LLMProviderError")
    ELSE IF reply.kind = "absent" THEN Responds(NoText("text"))
    ELSE Responds(reply)

GenerateJson(name, reply) ==
    IF name = "groq" THEN GroqGenerate(reply)
    ELSE IF name = "openai" THEN OpenAIGenerate(reply)
    ELSE IF name = "gemini" THEN GeminiGenerate(reply)
    ELSE OllamaGenerate(reply)

-----------------------------------------------------------------------------
(* The parser and the orchestrator                                         *)

\* strip() of None raises.  The greedy {.*} takes everything from the first brace
\* to the last, which is no JSON when the text has braces beside the object's.
ExtractJson(raw) ==
    raw.kind = "text" /\ raw.form \in {"json", "fenced", "embedded", "list", "partial"}

\* StructuredSummary takes a mapping with all five fields.
ParseModel(raw) == ExtractJson(raw) /\ raw.form \notin {"list", "partial"}

\* An amount needs a qualifier somewhere in the text.
ValidateSummary(text) == text.amount => text.qualifier

\* _call_provider: a parsed summary, or None or an exception.
CallProvider(name, reply) ==
    /\ name \in Supported
    /\ LET response == GenerateJson(name, reply) IN
       response.raised = "nothing" /\ response.success /\ ParseModel(response.rawText)

\* One turn of the loop over the providers: whether it returns the summary.
\* wait_for ends a stalled call; whatever else happens goes on to the next.
Accepted(name, reply) ==
    /\ reply.kind # "stall"
    /\ CallProvider(name, reply)
    /\ ValidateSummary(GenerateJson(name, reply).rawText)

\* What a reply is worth, whoever gives it: a summary in time, in any wrapping,
\* with no bare dollar amount.
Worth(reply) ==
    /\ reply.kind = "text" /\ reply.form \in SummaryForms
    /\ reply.amount => reply.qualifier

\* The summaries of that worth that the code loses: one with other braces around
\* it, and one whose token counts groq or openai stumbles over.
Lost(name, reply) ==
    \/ reply.form = "braced"
    \/ name = "groq" /\ reply.usage # "counted"
    \/ name = "openai" /\ reply.usage = "uncounted"

Usable(name, reply) == name \in Supported /\ Worth(reply) /\ ~Lost(name, reply)
=============================================================================
