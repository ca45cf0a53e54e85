----------------------------- MODULE Estimates -----------------------------
(* internal/tokenize: what a request is expected to cost, in tokens, from    *)
(* its body alone.  The relay reserves this number before it calls.          *)
EXTENDS Integers, Sequences
LOCAL INSTANCE Functions

CONSTANT Half       \* 2^63 in the program: the first number past int64

MaxCompletionEstimate == 16384

ASSUME WidthAssumption == Half \in Nat /\ Half > MaxCompletionEstimate

\* The int64 that holds the low bits of i.
Wrapped(i) == ((i + Half) % (2 * Half)) - Half

Int64 == -Half .. Half - 1

\* A text is known by its number of CJK characters and of others.
Text == [cjk : Nat, rest : Nat]

\* One token for a CJK character, a quarter for any other, rounded up.
EstimateText(t) == (4 * t.cjk + t.rest + 3) \div 4

EstimateTexts(texts) ==
    SumFunction([i \in DOMAIN texts |-> EstimateText(texts[i])])

\* Four tokens for each message, whatever it holds; each text by itself.
EstimateChatPrompt(messages, texts) == 4 * messages + EstimateTexts(texts)

\* n answers of max_tokens each; numbers that are missing or make no sense
\* are replaced.
Asked(maxTokens, n) == (IF maxTokens <= 0 THEN 4096 ELSE maxTokens)
                       * (IF n <= 0 THEN 1 ELSE n)

\* The product is an int64 before it is capped.
EstimateCompletionTokens(maxTokens, n) ==
    LET total == Wrapped(Asked(maxTokens, n)) IN
    IF total > MaxCompletionEstimate THEN MaxCompletionEstimate ELSE total

\* What a body says: its messages (in chats), the texts in messages, prompt
\* or input, max_tokens and n (0 when they are not numbers).
Contents == [kind : {"chat", "completion", "embedding"}, messages : Nat,
             texts : Seq(Text), maxTokens : Int64, n : Int64]

prompt(b) == IF b.kind = "chat" THEN EstimateChatPrompt(b.messages, b.texts)
             ELSE EstimateTexts(b.texts)

completion(b) == IF b.kind = "embedding" THEN 0
                 ELSE EstimateCompletionTokens(b.maxTokens, b.n)
=============================================================================
