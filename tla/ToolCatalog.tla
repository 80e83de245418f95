----------------------------- MODULE ToolCatalog -----------------------------
(***************************************************************************)
(* The tools a fresh registry holds, what a call of one is asked to satisfy *)
(* and which approval policy governs it: internal/tools/registry.go,        *)
(* tool_metadata.go, schema_validation.go, approval.go and the command      *)
(* filter of shell.go.  Nothing here has state; ToolCalls dispatches with   *)
(* these operators.                                                         *)
(*                                                                          *)
(* An argument is [t |-> its JSON type, v |-> its value].  A number is      *)
(* counted in halves, so that 3 is the fraction 1.5 and an integer is an    *)
(* even value.  A pattern is the set of the texts that match it.            *)
(***************************************************************************)
EXTENDS Integers, Sequences, SequencesExt, TLC

NoFields == [x \in {} |-> x]
TextValue(s) == [t |-> "string", v |-> s]

Hashes == {"sha:a", "sha:b"}

----------------------------------------------------------------------------
(* Schemas *)

JSON(type) == [type |-> type]
NonEmpty == JSON("string") @@ [minLength |-> 1]
OneOf(texts) == JSON("string") @@ [enum |-> texts]
Number(type, low, high) == JSON(type) @@ [minimum |-> low, maximum |-> high]
List(item) == JSON("array") @@ [minItems |-> 1, items |-> item]
Object(props, required) ==
    JSON("object") @@ [props |-> props, required |-> required, closed |-> TRUE]
OpenObject(props, required) ==
    JSON("object") @@ [props |-> props, required |-> required, closed |-> FALSE]

Unbounded == 1000000

FilePrecondition ==
    JSON("string") @@ [anyOf |-> { JSON("string") @@ [const |-> "absent"],
                                  JSON("string") @@ [pattern |-> Hashes] }]
ExistingFilePrecondition == JSON("string") @@ [pattern |-> Hashes]

Given(args) == {k \in DOMAIN args : args[k].t # "null"}

\* The recursion of the validator goes as deep as the schemas do: the arguments, a
\* list or an alternative, an item, a field of it.
ConformsTo(value, schema) ==
    LET Fits(v, s, Nested(_, _)) ==
            LET says(f) == f \in DOMAIN s IN
            /\ says("anyOf") => \E alternative \in s.anyOf : Nested(v, alternative)
            /\ says("const") => v = TextValue(s.const)
            /\ says("enum")  => v.t = "string" /\ v.v \in s.enum
            /\ CASE s.type = "object" ->
                      /\ v.t = "object"
                      /\ s.closed => DOMAIN v.v \subseteq DOMAIN s.props
                      /\ s.required \subseteq Given(v.v)
                      /\ \A k \in DOMAIN v.v \cap DOMAIN s.props :
                            Nested(v.v[k], s.props[k])
                 [] s.type = "array" ->
                      /\ v.t = "array"
                      /\ says("minItems") => Len(v.v) >= s.minItems
                      /\ \A i \in DOMAIN v.v : Nested(v.v[i], s.items)
                 [] s.type = "string" ->
                      /\ v.t = "string"
                      /\ says("minLength") => Len(v.v) >= s.minLength
                      /\ says("pattern") => v.v \in s.pattern
                 [] s.type = "boolean" -> v.t = "boolean"
                 [] s.type \in {"integer", "number"} ->
                      /\ v.t = "number"
                      /\ s.type = "integer" => v.v % 2 = 0
                      /\ says("minimum") => v.v >= 2 * s.minimum
                      /\ says("maximum") => v.v <= 2 * s.maximum
                      /\ says("exclusiveMinimum") => v.v > 2 * s.exclusiveMinimum
                 [] OTHER -> FALSE
        Field(v, s) == Fits(v, s, LAMBDA part, below : FALSE)
        Item(v, s)  == Fits(v, s, Field)
        Listed(v, s) == Fits(v, s, Item)
    IN Fits(value, schema, Listed)

----------------------------------------------------------------------------
(* The built-in tools: the access tier a tool starts from, whether a batch  *)
(* of it may run in parallel, and the schema of its arguments.              *)

Tool(tier, parallel, schema) ==
    [tier |-> tier, parallel |-> parallel, schema |-> schema]

FileReadTool ==
    Tool("read", TRUE,
         Object("path" :> JSON("string") @@ "max_bytes" :> Number("integer", 1, 131072),
                {"path"}))
FileWriteTool ==
    Tool("write", FALSE,
         Object("path" :> JSON("string") @@ "content" :> JSON("string")
                  @@ "expected_sha256" :> FilePrecondition,
                {"path", "content", "expected_sha256"}))
FileAppendTool == FileWriteTool
FilePatchTool ==
    Tool("write", FALSE,
         Object("path" :> JSON("string") @@ "old_str" :> JSON("string")
                  @@ "new_str" :> JSON("string")
                  @@ "expected_sha256" :> ExistingFilePrecondition,
                {"path", "old_str", "new_str", "expected_sha256"}))
ShellExecTool ==
    Tool("exec", FALSE,
         Object("command" :> NonEmpty @@ "host" :> JSON("string")
                  @@ "timeout_seconds" :> Number("integer", 1, Unbounded)
                  @@ "async" :> JSON("boolean"),
                {"command"}))
JobTool ==
    Tool("read", FALSE,
         Object("action" :> OneOf({"list", "status", "tail", "wait", "cancel"})
                  @@ "job_id" :> JSON("string")
                  @@ "max_bytes" :> Number("integer", 1, Unbounded)
                  @@ "timeout_seconds" :> (JSON("number") @@ [exclusiveMinimum |-> 0]),
                {"action"}))
GitTool ==
    Tool("exec", FALSE,
         Object("action" :> OneOf({"status", "diff", "add", "commit"})
                  @@ "repo_path" :> JSON("string") @@ "staged" :> JSON("boolean")
                  @@ "paths" :> List(NonEmpty) @@ "message" :> NonEmpty,
                {"action"}))
WebSearchTool == Tool("read", TRUE, OpenObject("query" :> JSON("string"), {"query"}))
SearchFilesTool ==
    Tool("read", TRUE,
         Object("pattern" :> NonEmpty @@ "path" :> JSON("string")
                  @@ "target" :> OneOf({"content", "files"})
                  @@ "file_glob" :> JSON("string") @@ "limit" :> Number("integer", 1, 200),
                {"pattern"}))
WebFetchTool ==
    Tool("read", TRUE,
         Object("url" :> JSON("string")
                  @@ "max_chars" :> Number("integer", 1000, 200000),
                {"url"}))
TodoItemSchema ==
    Object("id" :> JSON("string") @@ "content" :> NonEmpty
             @@ "status" :> OneOf({"pending", "in_progress", "completed", "cancelled"}),
           {})
TodoTool ==
    Tool("write", FALSE,
         Object("action" :> OneOf({"create", "update", "complete", "cancel", "list"})
                  @@ "items" :> List(TodoItemSchema),
                {"action"}))
DelegateTool ==
    Tool("exec", TRUE,
         Object("goal" :> NonEmpty @@ "context" :> JSON("string")
                  @@ "background" :> JSON("boolean"),
                {"goal"}))
ResumeTool == Tool("exec", FALSE, Object("task_id" :> JSON("string"), {"task_id"}))
ImageTool == Tool("exec", FALSE, OpenObject("prompt" :> JSON("string"), {"prompt"}))
VisionTool == Tool("exec", TRUE, OpenObject("image_path" :> JSON("string"), {"image_path"}))

\* A tool of an MCP server starts at the write tier, with the server's schema.
ForeignTool == Tool("write", FALSE, OpenObject(NoFields, {}))

\* WithoutSubagents leaves the two sub-agent tools out.
NewRegistry(subagents) ==
    "file_read" :> FileReadTool @@ "file_write" :> FileWriteTool
    @@ "file_append" :> FileAppendTool @@ "file_patch" :> FilePatchTool
    @@ "shell_exec" :> ShellExecTool @@ "job" :> JobTool @@ "git" :> GitTool
    @@ "web_search" :> WebSearchTool @@ "search_files" :> SearchFilesTool
    @@ "web_fetch" :> WebFetchTool @@ "todo" :> TodoTool
    @@ "image_generate" :> ImageTool @@ "vision_analyze" :> VisionTool
    @@ (IF subagents THEN "delegate_task" :> DelegateTool @@ "resume_task" :> ResumeTool
                     ELSE NoFields)

----------------------------------------------------------------------------
(* The tier of a call follows from its arguments. *)

Tiers == {"read", "write", "exec"}
Rank(tier) == CASE tier = "read" -> 1 [] tier = "write" -> 2 [] tier = "exec" -> 3
                [] OTHER -> 4

StringArg(args, k) == IF k \in DOMAIN args /\ args[k].t = "string" THEN args[k].v ELSE ""

\* The tier of an action, or "error" when the resolver rejects it.
GitTier(args) ==
    LET action == StringArg(args, "action") IN
    CASE action \in {"status", "diff"} -> "read"
      [] action = "add" -> "write"
      [] action = "commit" -> "exec"
      [] OTHER -> "error"
TodoTier(args) ==
    LET action == StringArg(args, "action") IN
    CASE action = "list" -> "read"
      [] action \in {"create", "update", "complete", "cancel"} -> "write"
      [] OTHER -> "error"
JobTier(args) ==
    LET action == StringArg(args, "action") IN
    CASE action \in {"list", "status", "tail", "wait"} -> "read"
      [] action = "cancel" -> "exec"
      [] OTHER -> "error"
ShellTier(args) == IF StringArg(args, "command") = "" THEN "error" ELSE "exec"

\* An unknown tier counts as exec.
ResolvedTier(name, tool, args) ==
    LET tier == CASE name = "git" -> GitTier(args)
                  [] name = "todo" -> TodoTier(args)
                  [] name = "job" -> JobTier(args)
                  [] name = "shell_exec" -> ShellTier(args)
                  [] OTHER -> tool.tier
    IN IF tier \in Tiers \cup {"error"} THEN tier ELSE "exec"

----------------------------------------------------------------------------
(* Approval policies: [mode, tools, tiers], the last two partial functions. *)

Policies == {"allow", "prompt", "deny"}

DefaultPolicy(mode, tier) ==
    CASE mode = "always-ask" -> IF Rank(tier) >= Rank("write") THEN "prompt" ELSE "allow"
      [] mode = "write" -> IF Rank(tier) >= Rank("exec") THEN "prompt" ELSE "allow"
      [] mode = "yolo" -> "allow"
      [] OTHER -> "prompt"

ResolveApprovalPolicy(cfg, name, tier) ==
    IF name \in DOMAIN cfg.tools THEN cfg.tools[name]
    ELSE IF tier \in DOMAIN cfg.tiers THEN cfg.tiers[tier]
    ELSE DefaultPolicy(cfg.mode, tier)

\* What a sub-agent's registry gets: no mode default, prompts answered yes,
\* denials kept.
RewritePromptToAllow(rules) ==
    [x \in DOMAIN rules |-> IF rules[x] = "prompt" THEN "allow" ELSE rules[x]]
SubagentConfig(cfg) ==
    [mode |-> "yolo", tools |-> RewritePromptToAllow(cfg.tools),
     tiers |-> RewritePromptToAllow(cfg.tiers)]

----------------------------------------------------------------------------
(* The command filter.  A command line is the sequence of its segments (the *)
(* parts between |, &, ; and line ends), each a sequence of words.          *)

BlockedByDefault == {<<"rm", "-rf", "/">>, <<"chmod", "777">>}
NeverBlocked == {"sudo"}

CheckBlocked(segments, entries) ==
    \E pattern \in {p \in (IF entries = {} THEN BlockedByDefault ELSE entries) :
                       p # <<>> /\ Head(p) \notin NeverBlocked} :
        \E i \in DOMAIN segments : IsPrefix(pattern, segments[i])
=============================================================================
