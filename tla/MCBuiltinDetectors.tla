------------------------- MODULE MCBuiltinDetectors -------------------------
(* Projects with up to three traits; a trait is a file, or a file together *)
(* with one thing a detector looks for in it.                              *)
EXTENDS BuiltinDetectors

Present(f) == {<<f>>}
With(f, t) == {<<f>>, <<f, t>>}

PackageTexts == {"next", "@sveltejs/kit", "vite", "react-scripts", "@angular/core",
                 "@vue/cli-service", "@solidjs/start", "solid-js", "@nestjs/core",
                 "express", "fastify", "elysia", "hono"}

MCTraits ==
    {Present(f) : f \in {"next.config", "nuxt.config", "astro.config", "remix.config",
        "gatsby-config", "vite.config", "bun.lock", "package-lock.json", "fresh.config.ts",
        "deno.json", "deno.jsonc", "manage.py", "requirements.txt", "main package", "go.mod",
        "Gemfile", "config/routes.rb", "artisan", "composer.json", "wp-content", "index.php",
        "pom.xml", "build.gradle", "build.gradle.kts", "csproj"}}
      \cup {With("package.json", t) : t \in PackageTexts}
      \cup {With("main.ts", "oak"), With("requirements.txt", "fastapi"),
            With("requirements.txt", "flask"), With("go.mod", "gin"), With("go.mod", "echo"),
            With("go.mod", "fiber"), With("Gemfile", "sinatra"), With("Cargo.toml", "axum"),
            With("Cargo.toml", "actix-web"), With("mix.exs", "phoenix"),
            With("composer.json", "symfony"), With("composer.json", "slim"),
            With("pom.xml", "spring-boot"), With("pom.xml", "quarkus"),
            With("build.gradle", "micronaut"), With("build.gradle.kts", "spring-boot"),
            With("csproj", "AspNetCore"), With("csproj", "WebAssembly"),
            With("Program.cs", "WebApplication")}

MCProjects == {a \cup b \cup c : a, b, c \in MCTraits}

MCNameOf == [d \in Names |-> d]
MCEntries == Names
=============================================================================
