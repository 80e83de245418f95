----------------------------- MODULE MCToolCalls -----------------------------
(* Instance of ToolCalls: two turns, batches of one to three calls.          *)
EXTENDS ToolCalls

Call(tool, args) == [tool |-> tool, args |-> args]
Shell(command) == Call("shell_exec", "command" :> TextValue(command))
Job(action) == Call("job", "action" :> TextValue(action))
Git(action) == Call("git", "action" :> TextValue(action))
Delegate == Call("delegate_task", "goal" :> TextValue("g"))
DelegateAway ==
    Call("delegate_task",
         "goal" :> TextValue("g") @@ "background" :> [t |-> "boolean", v |-> TRUE])
Look == Call("vision_analyze", "image_path" :> TextValue("p"))
Read == Call("file_read", "path" :> TextValue("p"))
Todo(status) ==
    Call("todo", "action" :> TextValue("update")
                   @@ "items" :> [t |-> "array",
                                  v |-> <<[t |-> "object", v |-> "status" :> TextValue(status)]>>])
Write(sum) ==
    Call("file_write", "path" :> TextValue("p") @@ "content" :> TextValue("")
                         @@ "expected_sha256" :> TextValue(sum)
                         @@ "workspace" :> TextValue("elsewhere"))

MCConfigs ==
    { [mode |-> "write", tools |-> NoFields, tiers |-> NoFields],
      [mode |-> "always-ask", tools |-> "shell_exec" :> "deny", tiers |-> "write" :> "allow"],
      [mode |-> "yolo", tools |-> "delegate_task" :> "prompt", tiers |-> "exec" :> "deny"] }

MCBatches ==
    { <<Delegate, DelegateAway>>, <<Look, Read, Look>>,
      <<Shell("make"), Shell("tidy")>>, <<Shell("make"), Git("commit")>>, <<Shell("cleanup")>>,
      <<Todo("completed"), Write("absent")>>, <<Write("sha:c")>>, <<Todo("lost")>>,
      <<Git("status"), Job("cancel")>>, <<Call("mcp_docs_fetch", NoFields), Git("push")>> }

MCSubagentCalls == {Shell("make"), Delegate}
MCSubagentTools == {"file_read", "shell_exec", "git"}
=============================================================================
