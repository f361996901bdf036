---------------------------- MODULE JointWrappers ---------------------------
(***************************************************************************)
(* The Lua wrappers of love.physics' RevoluteJoint (wrap_RevoluteJoint.cpp) *)
(* as a function of the call: the value at index 1 (a Proxy with its type  *)
(* descriptor and object pointer, and whether the Box2D joint behind it    *)
(* still exists), the other arguments on the stack, and the method.  A     *)
(* joint destroyed through Joint:destroy or with its body or world keeps   *)
(* its love::Object (the Proxy still holds it) but isValid() is false.     *)
(* Stack values and argument errors are those of Marshal.                  *)
(***************************************************************************)
EXTENDS Types, Marshal

\* The descriptors a joint wrapper can meet, with their parents (the
\* love::Type definitions of the joint classes); "null" stands for a value
\* that is not a userdata, or a Proxy whose type pointer is null.
JParent ==
    [RevoluteJoint |-> "Joint", WheelJoint |-> "Joint", MouseJoint |-> "Joint",
     Joint |-> "Object", Body |-> "Object", Object |-> "null"]
NoType == "null"

\* The methods of w_RevoluteJoint_functions: the argument kinds they read
\* from index 2 on, and whether the joint call runs inside luax_catchexcept.
RevoluteMethods ==
    [getJointAngle |-> <<>>, getJointSpeed |-> <<>>, setMotorEnabled |-> <<"boolean">>,
     isMotorEnabled |-> <<>>, setMaxMotorTorque |-> <<"number">>, setMotorSpeed |-> <<"number">>,
     getMotorSpeed |-> <<>>, getMotorTorque |-> <<"number">>, getMaxMotorTorque |-> <<>>,
     setLimitsEnabled |-> <<"boolean">>, areLimitsEnabled |-> <<>>, setUpperLimit |-> <<"number">>,
     setLowerLimit |-> <<"number">>, setLimits |-> <<"number", "number">>, getLowerLimit |-> <<>>,
     getUpperLimit |-> <<>>, getLimits |-> <<>>, getReferenceAngle |-> <<>>]
Catching == {"setUpperLimit", "setLowerLimit", "setLimits"}

\* luax_checkboolean: the argument must be a boolean.
CheckBoolean(a) == IF a.t = "boolean" THEN Ok(a.n) ELSE Err

\* One argument read by its kind.
CheckArg(kind, a) == IF kind = "boolean" THEN CheckBoolean(a) ELSE CheckNumber(a)

\* Mutant of CheckRevoluteJoint: the isValid() test is left out.
CheckRevoluteJointNoValid(p) ==
    CASE p.type = NoType \/ ~IsAUnder(JParent, p.type, "RevoluteJoint") -> "typeerror"
      [] p.obj = "null" -> "released"
      [] OTHER -> "ok"

(* luax_checkrevolutejoint: luax_checktype<RevoluteJoint> (a type error    *)
(* for anything that is not a RevoluteJoint Proxy, the released error for  *)
(* a Proxy whose object was released), then "Attempt to use destroyed      *)
(* joint." unless isValid().                                               *)
CheckRevoluteJoint(p) ==
    CASE p.type = NoType \/ ~IsAUnder(JParent, p.type, "RevoluteJoint") -> "typeerror"
      [] p.obj = "null" -> "released"
      [] ~p.valid -> "destroyed"
      [] OTHER -> "ok"

(* A w_RevoluteJoint_* call: the joint check, the arguments in order, then *)
(* the joint call, which for the limit setters runs in luax_catchexcept    *)
(* and may throw.  The set of outcomes: an error name, or "call" when the  *)
(* joint's method ran and returned.                                        *)
RevoluteCall(m, p, args) ==
    LET kinds == RevoluteMethods[m]
        chk == CheckRevoluteJoint(p)
        bad == {i \in 1..Len(kinds) : CheckArg(kinds[i], Arg(args, i)).err}
    IN  CASE chk # "ok" -> {chk}
          [] bad # {} -> {"argerror"}
          [] m \in Catching -> {"exception", "call"}
          [] OTHER -> {"call"}

=============================================================================
