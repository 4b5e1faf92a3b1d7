-------------------------- MODULE MCComponentSetup ---------------------------
EXTENDS ComponentSetup

CONSTANTS a, b, c

To(x, y) == [d \in Domains |-> IF d = x THEN y ELSE {}]
None == [d \in Domains |-> {}]
Pairs(x, xs, y, ys) == [d \in Domains |-> IF d = x THEN xs ELSE IF d = y THEN ys ELSE {}]

Manifest(hard, after, platforms) == [hard |-> hard, after |-> after, platforms |-> platforms]

\* a and b come after each other, and nothing else depends on c
DroppedDependents == Manifest(To(a, {c}), Pairs(a, {b}, b, {a}), None)
MCDropped == {DroppedDependents}

MCGroups == {{a}, {b, c}}
MCGroupsButC == {{a}, {b}}

MCManifests ==
  {DroppedDependents,
   \* a depends on b, and comes after c, to which the entries of b are forwarded
   Manifest(To(a, {b}), To(a, {c}), To(b, {c})),
   \* two dependents of one component
   Manifest(Pairs(a, {c}, b, {c}), To(a, {b}), None),
   \* a chain whose ends come after each other
   Manifest(Pairs(a, {b}, b, {c}), To(c, {a}), None),
   \* circular dependencies, and one that leads to them
   Manifest(Pairs(a, {b}, b, {a}), To(c, {a}), To(c, {a})),
   \* circular after_dependencies, also through the third
   Manifest(None, [d \in Domains |-> Domains \ {d}], None),
   Manifest(To(c, {a}), Pairs(a, {b}, b, {a}), None)}

\* For every graph, what cannot be resolved is what leads to a cycle.
ASSUME CircularOrResolves ==
  \A edges \in [Domains -> SUBSET Domains], d \in Domains :
    Resolves(edges, d) <=> ~Circular(edges, d)
=============================================================================
