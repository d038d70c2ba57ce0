--------------------------- MODULE MCConversation ---------------------------
(* What environments and models may say, for TLC.                          *)
EXTENDS Conversation

Chat(role, parts) == [role |-> role, parts |-> parts, calls |-> <<>>, call |-> "none"]

System == Chat("system", <<"text">>)
User == Chat("user", <<"text", "png">>)
Drawing == Chat("user", <<"svg">>)
Assistant == [Chat("assistant", <<"text">>) EXCEPT !.calls = <<"c1">>]
Tool == [Chat("tool", <<"text", "url">>) EXCEPT !.call = "c1"]

MCResponses == {
    <<User>>, <<Tool>>, <<System, User>>, <<Tool, User>>, <<User, Tool>>, <<Tool, Tool>>,
    <<User, Drawing>>, <<User, Assistant, Tool>>, <<User, System, Drawing>>}

Item(type) == [type |-> type, role |-> "assistant", parts |-> <<>>, call |-> "none"]
Text == MessageItem("assistant", <<"text">>)

MCOutputs == [
    chat |-> {<<Chat("assistant", <<"text">>)>>,
              <<[Chat("assistant", <<>>) EXCEPT !.calls = <<"c1", "c2">>]>>},
    responses |-> {<<Item("reasoning"), Text>>, <<Text, CallItem("c1"), CallItem("c2")>>,
                   <<Item("reasoning"), CallItem("c1")>>, <<CallItem("c1"), Text>>,
                   <<CallItem("c1"), Text, CallItem("c2")>>},
    anthropic |-> {[role |-> "assistant", blocks |-> <<Block("thinking", <<>>, "none"),
                      Block("part", <<"text">>, "none"), Block("tool_use", <<>>, "c1")>>],
                   [role |-> "assistant", blocks |-> <<Block("tool_use", <<>>, "c1"),
                      Block("tool_use", <<>>, "c2")>>]}]

MCClientSets == (SUBSET Apis) \ {{}}
=============================================================================
